---- MODULE Spec2Model ----
(***************************************************************************)
(* Model of the data-quality analysis engine (src/lib/dataAnalyzer.ts),     *)
(* the recommendation engine (src/lib/aiAnalyzer.ts) and the analysis page. *)
(*                                                                         *)
(* A raw cell value is a record [t, s]: t is the JavaScript type of the    *)
(* value ("null", "undefined", "string", "number", "boolean") and s is     *)
(* String(value), the text the code itself converts every value to before  *)
(* it tests it.  Two values are the same Set element (SameValueZero) iff   *)
(* the two records are equal.                                              *)
(*                                                                         *)
(* Eight specifications share the variables:                               *)
(*   SpecColumn    one column of raw values run through analyzeColumn      *)
(*   SpecScore     a list of column statistics run through the four scores *)
(*   Spec          a file run through analyzeCSV / analyzeJSON             *)
(*   SpecFallback  four scores run through defaultInsights                 *)
(*   SpecPage      the analysis page: analyzeFile, the request to          *)
(*                 /api/analyze, the route and generateInsights, then the  *)
(*                 dashboard and the reports                               *)
(*   SpecPageFair  SpecPage under the scheduling of the event loop         *)
(*   SpecRuns      the analysis page whose effect fires a second time      *)
(*   SpecHome      the upload page: handleFile                             *)
(***************************************************************************)
EXTENDS Integers, Sequences, FiniteSets, TLC

VARIABLES engine, phase, values, column, cols, stats, scores, file, outcome,
          page, requests, response, service, apiKey, calls,
          sessionStorage, dashboard, report, runs, written, home

\* The dashboard page and what it is handed
viewVars == <<sessionStorage, dashboard, report>>

\* The runs of a page whose effect fires again, and the upload page
otherPages == <<runs, written, home>>

pageVars ==
  <<page, requests, response, service, apiKey, calls, viewVars, otherPages>>

vars == <<engine, phase, values, column, cols, stats, scores, file, outcome,
          pageVars>>

(***************************************************************************)
(* Bounds                                                                  *)
(***************************************************************************)
MaxRows == 3

MaxTallRows == 40

MaxBase == 2

MaxRepeat == 11

MaxFileRows == 2

MaxTallFile == 7

MaxMargin == 1

MaxFiller == 4
\* Rows of a column with more distinct values than the sample holds.
MaxVaried == 10
\* Records of a file whose column draws all three kinds of issue.
MaxBlankRows == 3
\* Runs of analyzeFile on one mounted page.
MaxRuns == 2
\* Files chosen or dropped on one mounted upload page.
MaxUploads == 2

(***************************************************************************)
(* Raw values                                                              *)
(***************************************************************************)
Null == [t |-> "null", s |-> "null"]

Undefined == [t |-> "undefined", s |-> "undefined"]

Str(x) == [t |-> "string", s |-> x]

Num(x) == [t |-> "number", s |-> x]

Bool(x) == [t |-> "boolean", s |-> x]

Values ==
  { Null, Undefined, Str(""), Str(" "), Str("0"), Num("0"), Num("1"),
    Str("Yes"), Bool("true"), Str("2024-01-15"), Num("999"), Num("4.8"),
    Str("abc") }

(***************************************************************************)
(* JavaScript primitives used by the analyzer                              *)
(***************************************************************************)
Max(a, b) == IF a >= b THEN a ELSE b

\* Math.round(num / den) for den > 0: the nearest integer, halves upwards.
MathRound(num, den) == (2 * num + den) \div (2 * den)

(***************************************************************************)
(* Math.round((count / len) * 100) in IEEE-754 double arithmetic, for      *)
(* 0 <= count <= len, len > 0.  A positive double below 128 is kept as     *)
(* its 53-bit significand top * 2^52 + l1 * 2^39 + l2 * 2^26 + l3 * 2^13   *)
(* + l4 (four limbs of 13 bits under the leading bits) and the number      *)
(* shift: its value is significand * 2^-(shift + 52).                      *)
(***************************************************************************)
LimbBase == 8192

\* How often r is doubled before it reaches n.
RECURSIVE LeadingShift(_, _)
LeadingShift(r, n) == IF r >= n THEN 0 ELSE 1 + LeadingShift(2 * r, n)

RECURSIVE BitLength(_)
BitLength(n) == IF n = 0 THEN 0 ELSE 1 + BitLength(n \div 2)

\* x with unit added to its lowest limb, the carries taken upwards.
AddToLowestLimb(x, unit) ==
  LET s4 == x.l4 + unit
      s3 == x.l3 + s4 \div LimbBase
      s2 == x.l2 + s3 \div LimbBase
      s1 == x.l1 + s2 \div LimbBase
  IN  [ top |-> x.top + s1 \div LimbBase,
        l1 |-> s1 % LimbBase, l2 |-> s2 % LimbBase,
        l3 |-> s3 % LimbBase, l4 |-> s4 % LimbBase,
        shift |-> x.shift ]

\* count / len for 0 < count < len: 53 quotient bits from the first set bit
\* on, rounded to nearest, ties to even, by the bits that follow.
DivideDouble(count, len) ==
  LET shift == LeadingShift(count, len)
      r1 == count * (2 ^ shift) - len
      l1 == (r1 * LimbBase) \div len
      r2 == (r1 * LimbBase) % len
      l2 == (r2 * LimbBase) \div len
      r3 == (r2 * LimbBase) % len
      l3 == (r3 * LimbBase) \div len
      r4 == (r3 * LimbBase) % len
      l4 == (r4 * LimbBase) \div len
      r5 == (r4 * LimbBase) % len
      guard == 2 * r5 >= len
      sticky == 2 * r5 # len
      quotient == [ top |-> 1, l1 |-> l1, l2 |-> l2, l3 |-> l3, l4 |-> l4,
                    shift |-> shift ]
  IN  IF guard /\ (sticky \/ l4 % 2 = 1)
      THEN AddToLowestLimb(quotient, 1)
      ELSE quotient

\* x * 100: the exact product, rounded to 53 bits (nearest, ties to even).
TimesHundredDouble(x) ==
  LET t4 == x.l4 * 100
      t3 == x.l3 * 100 + t4 \div LimbBase
      t2 == x.l2 * 100 + t3 \div LimbBase
      t1 == x.l1 * 100 + t2 \div LimbBase
      top == x.top * 100 + t1 \div LimbBase
      low == t4 % LimbBase
      dropped == BitLength(top) - 1
      unit == 2 ^ dropped
      guard == (low \div (unit \div 2)) % 2 = 1
      sticky == low % (unit \div 2) # 0
      even == (low \div unit) % 2 = 0
      kept == [ top |-> top, l1 |-> t1 % LimbBase, l2 |-> t2 % LimbBase,
                l3 |-> t3 % LimbBase, l4 |-> (low \div unit) * unit,
                shift |-> x.shift ]
  IN  IF guard /\ (sticky \/ ~even)
      THEN AddToLowestLimb(kept, unit)
      ELSE kept

\* Math.round(x): the integer part, plus one when the first bit behind the
\* binary point is set.  Both lie in top, as shift >= 1.
RoundDouble(x) ==
  (x.top \div (2 ^ x.shift)) + ((x.top \div (2 ^ (x.shift - 1))) % 2)

\* Math.round((count / len) * 100)
RoundedPercent(count, len) ==
  IF count = 0 THEN 0
  ELSE IF count = len THEN 100
  ELSE RoundDouble(TimesHundredDouble(DivideDouble(count, len)))

\* The result of 0 / 0 and of every arithmetic operation on it.  It is kept
\* apart from every number a score can take.
NaN == -1

CharAt(s, i) == SubSeq(s, i, i)

IsDigit(c) == c \in {"0", "1", "2", "3", "4", "5", "6", "7", "8", "9"}

IsWhiteSpace(c) == c \in {" ", "\t", "\n", "\r"}

UpperCaseLetters == "ABCDEFGHIJKLMNOPQRSTUVWXYZ"

LowerCaseLetters == "abcdefghijklmnopqrstuvwxyz"

ToLowerChar(c) ==
  IF \E i \in 1..Len(UpperCaseLetters) : CharAt(UpperCaseLetters, i) = c
  THEN CharAt(LowerCaseLetters,
              CHOOSE i \in 1..Len(UpperCaseLetters) : CharAt(UpperCaseLetters, i) = c)
  ELSE c

RECURSIVE ToLowerCase(_)
ToLowerCase(s) ==
  IF Len(s) = 0 THEN s
  ELSE ToLowerChar(CharAt(s, 1)) \o ToLowerCase(SubSeq(s, 2, Len(s)))

\* String.prototype.includes
Includes(s, sub) ==
  \E i \in 1..(Len(s) - Len(sub) + 1) : SubSeq(s, i, i + Len(sub) - 1) = sub

RECURSIVE TrimStart(_)
TrimStart(s) ==
  IF Len(s) > 0 /\ IsWhiteSpace(CharAt(s, 1))
  THEN TrimStart(SubSeq(s, 2, Len(s)))
  ELSE s

RECURSIVE TrimEnd(_)
TrimEnd(s) ==
  IF Len(s) > 0 /\ IsWhiteSpace(CharAt(s, Len(s)))
  THEN TrimEnd(SubSeq(s, 1, Len(s) - 1))
  ELSE s

AllDigits(s) == \A i \in 1..Len(s) : IsDigit(CharAt(s, i))

AllZeros(s) == \A i \in 1..Len(s) : CharAt(s, i) = "0"

Unsigned(s) ==
  IF Len(s) > 0 /\ CharAt(s, 1) \in {"+", "-"} THEN SubSeq(s, 2, Len(s)) ELSE s

\* The position of the first "." of s, or 0.
DotAt(s) ==
  IF \E i \in 1..Len(s) : CharAt(s, i) = "."
  THEN CHOOSE i \in 1..Len(s) :
         CharAt(s, i) = "." /\ \A j \in 1..(i - 1) : CharAt(s, j) # "."
  ELSE 0

\* StrDecimalLiteral without exponent: digits, digits.digits, .digits, digits.
IsDecimalLiteral(s) ==
  LET u == Unsigned(s)
      d == DotAt(u)
  IN  IF d = 0
      THEN Len(u) > 0 /\ AllDigits(u)
      ELSE /\ Len(u) > 1
           /\ AllDigits(SubSeq(u, 1, d - 1))
           /\ AllDigits(SubSeq(u, d + 1, Len(u)))

\* Number(v) for a string: [nan, integer] is all the analyzer looks at.
StringToNumber(s) ==
  LET t == TrimEnd(TrimStart(s))
      u == Unsigned(t)
      d == DotAt(u)
  IN  IF Len(t) = 0 THEN [nan |-> FALSE, integer |-> TRUE]
      ELSE IF ~IsDecimalLiteral(t) THEN [nan |-> TRUE, integer |-> FALSE]
      ELSE [nan |-> FALSE,
            integer |-> d = 0 \/ AllZeros(SubSeq(u, d + 1, Len(u)))]

\* Number(v)
ToNumber(v) ==
  CASE v.t = "null" -> [nan |-> FALSE, integer |-> TRUE]
    [] v.t = "undefined" -> [nan |-> TRUE, integer |-> FALSE]
    [] v.t = "boolean" -> [nan |-> FALSE, integer |-> TRUE]
    [] OTHER -> StringToNumber(v.s)

\* Number.isInteger(Number(v))
IsIntegerNumber(v) == ~ToNumber(v).nan /\ ToNumber(v).integer

\* isNaN(parseFloat(s)): parseFloat skips leading white space and reads the
\* longest prefix that is a decimal literal; it is NaN when there is none.
ParseFloatIsNaN(s) ==
  LET u == Unsigned(TrimStart(s))
  IN  ~ \/ (Len(u) >= 1 /\ IsDigit(CharAt(u, 1)))
        \/ (Len(u) >= 2 /\ CharAt(u, 1) = "." /\ IsDigit(CharAt(u, 2)))

\* The date-time string format every engine must parse (YYYY-MM-DD here).
IsIsoDate(s) ==
  /\ Len(s) = 10
  /\ AllDigits(SubSeq(s, 1, 4))
  /\ CharAt(s, 5) = "-"
  /\ AllDigits(SubSeq(s, 6, 7))
  /\ CharAt(s, 8) = "-"
  /\ AllDigits(SubSeq(s, 9, 10))
  /\ SubSeq(s, 6, 7) \in {"01", "02", "03", "04", "05", "06",
                          "07", "08", "09", "10", "11", "12"}
  /\ ~AllZeros(SubSeq(s, 9, 10))

\* Strings outside that format go to the engine's own fallback parser, whose
\* answer is implementation-defined.  Text that starts with a digit is what
\* engines disagree about; the variable engine is the set of such strings
\* the engine at hand accepts.
LegacyCandidates ==
  { v.s : v \in { w \in Values : /\ w.t \in {"string", "number"}
                                 /\ Len(w.s) > 0
                                 /\ IsDigit(CharAt(w.s, 1))
                                 /\ ~IsIsoDate(w.s) } }

\* !isNaN(Date.parse(s))
DateParses(s) == IsIsoDate(s) \/ s \in engine

(***************************************************************************)
(* Column Profiler                                                         *)
(***************************************************************************)
\* Variant: every falsy value taken for missing (!v).
IsMissingFalsy(v) ==
  \/ v.t = "null" \/ v.t = "undefined" \/ (v.t = "string" /\ v.s = "")
  \/ (v.t = "number" /\ v.s = "0") \/ (v.t = "boolean" /\ v.s = "false")

\* v === null || v === undefined || v === ""
IsMissing(v) ==
  v.t = "null" \/ v.t = "undefined" \/ (v.t = "string" /\ v.s = "")

\* v != null && v !== ""
IsPresent(v) ==
  /\ v.t \notin {"null", "undefined"}
  /\ ~(v.t = "string" /\ v.s = "")

InSeq(x, seq) == \E i \in 1..Len(seq) : seq[i] = x

\* Variant: a repeated value kept at its last occurrence.
RECURSIVE NewSetLastSeen(_)
NewSetLastSeen(seq) ==
  IF seq = <<>> THEN <<>>
  ELSE LET rest == NewSetLastSeen(Tail(seq))
       IN  IF InSeq(Head(seq), rest) THEN rest ELSE <<Head(seq)>> \o rest

\* new Set(seq), as the sequence of its elements in insertion order
RECURSIVE NewSet(_)
NewSet(seq) ==
  IF seq = <<>> THEN <<>>
  ELSE LET rest == NewSet(SubSeq(seq, 1, Len(seq) - 1))
           last == seq[Len(seq)]
       IN  IF InSeq(last, rest) THEN rest ELSE Append(rest, last)

\* Variant: the last n elements instead of the first n.
SliceFromEnd(seq, n) ==
  SubSeq(seq, IF Len(seq) < n THEN 1 ELSE Len(seq) - n + 1, Len(seq))

\* Array.prototype.slice(0, n)
Slice(seq, n) == SubSeq(seq, 1, IF Len(seq) < n THEN Len(seq) ELSE n)

SampleSize == 5

BooleanTokens == {"true", "false", "yes", "no", "1", "0"}

IsBooleanToken(v) == ToLowerCase(v.s) \in BooleanTokens

IsDateValue(v) == DateParses(v.s)

IsFloatValue(v) == ~ParseFloatIsNaN(v.s)

\* Variant: the numeric tests tried before the boolean and the date test.
inferDataTypeNumbersFirst(vals) ==
  LET nonNullValues == SelectSeq(vals, LAMBDA v : v \notin {Null, Undefined, Str("")})
  IN  IF Len(nonNullValues) = 0 THEN "text"
      ELSE IF \A i \in 1..Len(nonNullValues) : IsIntegerNumber(nonNullValues[i])
           THEN "integer"
      ELSE IF \A i \in 1..Len(nonNullValues) : ~ParseFloatIsNaN(nonNullValues[i].s)
           THEN "float"
      ELSE IF \A i \in 1..Len(nonNullValues) :
                ToLowerCase(nonNullValues[i].s) \in {"true", "false", "yes", "no", "1", "0"}
           THEN "boolean"
      ELSE IF \A i \in 1..Len(nonNullValues) : DateParses(nonNullValues[i].s)
           THEN "date"
      ELSE "text"

\* Variant: the tests run on every value, the missing ones included.
inferDataTypeUnfiltered(vals) ==
  LET every == 1..Len(vals)
  IN  IF Len(SelectSeq(vals, IsPresent)) = 0 THEN "text"
      ELSE IF \A i \in every : IsBooleanToken(vals[i]) THEN "boolean"
      ELSE IF \A i \in every : IsDateValue(vals[i]) THEN "date"
      ELSE IF \A i \in every : IsIntegerNumber(vals[i]) THEN "integer"
      ELSE IF \A i \in every : IsFloatValue(vals[i]) THEN "float"
      ELSE "text"

inferDataType(vals) ==
  LET nonNullValues == SelectSeq(vals, IsPresent)
      present == 1..Len(nonNullValues)
  IN  IF Len(nonNullValues) = 0 THEN "text"
      ELSE IF \A i \in present : IsBooleanToken(nonNullValues[i]) THEN "boolean"
      ELSE IF \A i \in present : IsDateValue(nonNullValues[i]) THEN "date"
      ELSE IF \A i \in present : IsIntegerNumber(nonNullValues[i]) THEN "integer"
      ELSE IF \A i \in present : IsFloatValue(nonNullValues[i]) THEN "float"
      ELSE "text"

MissingIssue(nullCount, len) ==
  ToString(nullCount) \o " missing values ("
    \o ToString(RoundedPercent(nullCount, len)) \o "%)"

NonNumericIssue(n) == ToString(n) \o " non-numeric values found"

DuplicateIssue(n) == ToString(n) \o " duplicate values"

IsTypeMismatch(v) == IsPresent(v) /\ ParseFloatIsNaN(v.s)

\* Variant: the missing-values issue reported whatever the count
\* (nullCount >= 0).
detectIssuesAlwaysMissing(columnName, vals, dataType) ==
  LET nullCount == Len(SelectSeq(vals, LAMBDA v : v \in {Null, Undefined, Str("")}))
      typeMismatches ==
        Len(SelectSeq(vals, LAMBDA v : /\ v \notin {Null, Undefined, Str("")}
                                       /\ ParseFloatIsNaN(v.s)))
      uniqueCount ==
        Cardinality({ vals[i] : i \in { k \in 1..Len(vals) :
                                          vals[k] \notin {Null, Undefined, Str("")} } })
      duplicateCount == Len(vals) - nullCount - uniqueCount
  IN  <<ToString(nullCount) \o " missing values ("
          \o ToString(RoundedPercent(nullCount, Len(vals))) \o "%)">>
      \o (IF dataType \in {"integer", "float"} /\ typeMismatches > 0
          THEN <<ToString(typeMismatches) \o " non-numeric values found">>
          ELSE <<>>)
      \o (IF duplicateCount > 0
          THEN <<ToString(duplicateCount) \o " duplicate values">> ELSE <<>>)

\* Variant: the duplicates counted among all rows, the missing ones included.
detectIssuesDuplicateRows(columnName, vals, dataType) ==
  LET nullCount == Len(SelectSeq(vals, IsMissing))
      typeMismatches == Len(SelectSeq(vals, IsTypeMismatch))
      uniqueCount == Len(NewSet(SelectSeq(vals, IsPresent)))
      duplicateCount == Len(vals) - uniqueCount
  IN  (IF nullCount > 0 THEN <<MissingIssue(nullCount, Len(vals))>> ELSE <<>>)
      \o (IF dataType \in {"integer", "float"} /\ typeMismatches > 0
          THEN <<NonNumericIssue(typeMismatches)>> ELSE <<>>)
      \o (IF duplicateCount > 0 THEN <<DuplicateIssue(duplicateCount)>> ELSE <<>>)

detectIssues(columnName, vals, dataType) ==
  LET nullCount == Len(SelectSeq(vals, IsMissing))
      typeMismatches == Len(SelectSeq(vals, IsTypeMismatch))
      uniqueCount == Len(NewSet(SelectSeq(vals, IsPresent)))
      duplicateCount == Len(vals) - nullCount - uniqueCount
      missing == IF nullCount > 0
                 THEN <<MissingIssue(nullCount, Len(vals))>> ELSE <<>>
      mismatch == IF dataType \in {"integer", "float"} /\ typeMismatches > 0
                  THEN <<NonNumericIssue(typeMismatches)>> ELSE <<>>
      duplicates == IF duplicateCount > 0
                    THEN <<DuplicateIssue(duplicateCount)>> ELSE <<>>
  IN  missing \o mismatch \o duplicates

analyzeColumn(columnName, vals) ==
  LET nullCount == Len(SelectSeq(vals, IsMissing))
      uniqueValues == NewSet(SelectSeq(vals, IsPresent))
      uniqueCount == Len(uniqueValues)
      dataType == inferDataType(vals)
  IN  [ name |-> columnName,
        type |-> dataType,
        totalRows |-> Len(vals),
        nullCount |-> nullCount,
        nullPercentage |-> RoundedPercent(nullCount, Len(vals)),
        uniqueCount |-> uniqueCount,
        uniquePercentage |-> RoundedPercent(uniqueCount, Len(vals)),
        sampleValues |-> Slice(uniqueValues, SampleSize),
        issues |-> detectIssues(columnName, vals, dataType) ]

(***************************************************************************)
(* Dataset Analyzer: the four scores                                       *)
(***************************************************************************)
RECURSIVE SumNullPercentage(_)
SumNullPercentage(st) ==
  IF st = <<>> THEN 0
  ELSE SumNullPercentage(SubSeq(st, 1, Len(st) - 1)) + st[Len(st)].nullPercentage

\* Variant: the mean rounded before the subtraction.
calculateCompletenessRoundFirst(st) ==
  IF Len(st) = 0 THEN NaN
  ELSE Max(0, 100 - MathRound(SumNullPercentage(st), Len(st)))

calculateCompleteness(st) ==
  IF Len(st) = 0 THEN NaN
  ELSE Max(0, MathRound(100 * Len(st) - SumNullPercentage(st), Len(st)))

RECURSIVE TextPenalty(_, _)
TextPenalty(st, score) ==
  IF st = <<>> THEN score
  ELSE TextPenalty(Tail(st),
                   IF Head(st).type = "text" THEN score - 5 ELSE score)

HasIssues(c) == Len(c.issues) > 0

\* Variant: one penalty for a column that is text or has an issue.
calculateConsistencyNoStack(st) ==
  Max(0, 100 - 5 * Cardinality({ i \in 1..Len(st) :
                                   st[i].type = "text" \/ Len(st[i].issues) > 0 }))

calculateConsistency(st) ==
  Max(0, TextPenalty(st, 100) - Len(SelectSeq(st, HasIssues)) * 5)

IsNonNumericIssue(i) == Includes(i, "non-numeric")

RECURSIVE calculateAccuracyLoop(_, _)
calculateAccuracyLoop(st, score) ==
  IF st = <<>> THEN score
  ELSE calculateAccuracyLoop(Tail(st),
         score - Len(SelectSeq(Head(st).issues, IsNonNumericIssue)) * 10)

\* stats.reduce((sum, col) => sum + col.issues.length, 0)
RECURSIVE IssueCount(_)
IssueCount(st) ==
  IF st = <<>> THEN 0 ELSE Len(Head(st).issues) + IssueCount(Tail(st))

\* Variant: every issue string counted.
calculateAccuracyAnyIssue(st) == Max(0, 100 - 10 * IssueCount(st))

calculateAccuracy(st) == Max(0, calculateAccuracyLoop(st, 100))

RECURSIVE calculateValidityLoop(_, _)
calculateValidityLoop(st, score) ==
  IF st = <<>> THEN score
  ELSE calculateValidityLoop(Tail(st),
         IF Head(st).type = "text" /\ Head(st).uniquePercentage < 80
         THEN score - 10 ELSE score)

\* Variant: the uniqueness test applied to columns of every type.
calculateValidityAnyType(st) ==
  Max(0, 100 - 10 * Cardinality({ i \in 1..Len(st) : st[i].uniquePercentage < 80 }))

calculateValidity(st) == Max(0, calculateValidityLoop(st, 100))

\* Math.round((completeness + consistency + accuracy + validity) / 4)
overallScore(completeness, consistency, accuracy, validity) ==
  IF completeness = NaN THEN NaN
  ELSE MathRound(completeness + consistency + accuracy + validity, 4)

generateSummary(rows, columns, st) ==
  "Dataset with " \o ToString(rows) \o " rows and " \o ToString(columns)
    \o " columns. Found " \o ToString(IssueCount(st))
    \o " data quality issues."

(***************************************************************************)
(* Dataset Analyzer: records, analyzeData and the two entry points         *)
(* A record is the sequence of its <<key, value>> pairs in insertion order.*)
(***************************************************************************)
Digits == "0123456789"

DigitOf(c) == CHOOSE d \in 0..9 : CharAt(Digits, d + 1) = c

\* a < b for two digit strings of equal length
DigitsLess(a, b) ==
  \E i \in 1..Len(a) :
    /\ DigitOf(CharAt(a, i)) < DigitOf(CharAt(b, i))
    /\ \A j \in 1..(i - 1) : CharAt(a, j) = CharAt(b, j)

MaxArrayIndex == "4294967294"

\* An array index: the canonical decimal text of an integer in 0..2^32 - 2.
IsArrayIndex(key) ==
  /\ Len(key) > 0
  /\ AllDigits(key)
  /\ key = "0" \/ CharAt(key, 1) # "0"
  /\ \/ Len(key) < Len(MaxArrayIndex)
     \/ Len(key) = Len(MaxArrayIndex) /\ ~DigitsLess(MaxArrayIndex, key)

IsPropertyName(key) == ~IsArrayIndex(key)

\* Numeric order of two array indices
IndexLess(a, b) ==
  Len(a) < Len(b) \/ (Len(a) = Len(b) /\ DigitsLess(a, b))

\* Object.keys(row).  A row is the sequence of its <<key, value>> pairs in
\* insertion order; own keys are listed array indices first, in ascending
\* numeric order, then the other keys in insertion order.
ObjectKeys(row) ==
  LET keys == [i \in 1..Len(row) |-> row[i][1]]
      indices == SelectSeq(keys, IsArrayIndex)
      names == SelectSeq(keys, IsPropertyName)
      Rank(k) ==
        Cardinality({ j \in 1..Len(indices) : IndexLess(indices[j], k) }) + 1
  IN  [p \in 1..Len(indices) |->
         indices[CHOOSE j \in 1..Len(indices) : Rank(indices[j]) = p]]
      \o names

\* row[colName]
Lookup(row, colName) ==
  IF \E i \in 1..Len(row) : row[i][1] = colName
  THEN row[CHOOSE i \in 1..Len(row) : row[i][1] = colName][2]
  ELSE Undefined

PreviewSize == 5

Throw(message) == [kind |-> "throw", message |-> message]

Return(value) == [kind |-> "ok", value |-> value]

EmptyDatasetMessage == "No data found in file"

analyzeData(data, fileName) ==
  IF Len(data) = 0 THEN Throw(EmptyDatasetMessage)
  ELSE
    LET columns == ObjectKeys(data[1])
        columnStats ==
          [c \in 1..Len(columns) |->
             analyzeColumn(columns[c],
                           [r \in 1..Len(data) |-> Lookup(data[r], columns[c])])]
        completeness == calculateCompleteness(columnStats)
        consistency == calculateConsistency(columnStats)
        accuracy == calculateAccuracy(columnStats)
        validity == calculateValidity(columnStats)
    IN  Return([ fileName |-> fileName,
                 totalRows |-> Len(data),
                 totalColumns |-> Len(columns),
                 columns |-> columnStats,
                 dataPreview |-> Slice(data, PreviewSize),
                 completeness |-> completeness,
                 consistency |-> consistency,
                 accuracy |-> accuracy,
                 validity |-> validity,
                 overallScore |->
                   overallScore(completeness, consistency, accuracy, validity),
                 summary |-> generateSummary(Len(data), Len(columns), columnStats) ])

\* The message of the SyntaxError JSON.parse throws on text that is not JSON.
SyntaxErrorMessage == "Unexpected token"

\* A file is its extension and what its text decodes to: valid says whether
\* the text stands for a value at all, top whether that value is an array or
\* a single object, rows the records.
JsonParse(f) ==
  IF ~f.valid THEN Throw(SyntaxErrorMessage)
  ELSE IF f.top = "array" THEN Return([isArray |-> TRUE, array |-> f.rows])
  ELSE Return([isArray |-> FALSE, object |-> f.rows[1]])

\* try { JSON.parse; analyzeData } catch (error) { throw new Error(...) }
analyzeJSON(f, fileName) ==
  LET data == JsonParse(f)
      dataArray == IF data.value.isArray THEN data.value.array
                   ELSE <<data.value.object>>
      analysis == analyzeData(dataArray, fileName)
      caught == IF data.kind = "throw" THEN data ELSE analysis
  IN  IF data.kind = "ok" /\ analysis.kind = "ok" THEN analysis
      ELSE Throw("JSON parsing error: " \o caught.message)

\* Papa.parse on a string calls complete synchronously with the records of
\* the text; what analyzeData throws there rejects the promise as it is.
analyzeCSV(f, fileName) == analyzeData(f.rows, fileName)

(***************************************************************************)
(* Recommendation engine (src/lib/aiAnalyzer.ts) and its route              *)
(***************************************************************************)
\* null where the analysis had a number: what JSON.stringify writes for NaN
JsonNull == -2

JsonNumber(n) == IF n = NaN THEN JsonNull ELSE n

IsDefinedProperty(pair) == pair[2].t # "undefined"

\* JSON.parse(JSON.stringify(row)): a property holding undefined is left out.
JsonRow(row) == SelectSeq(row, IsDefinedProperty)

\* An array element holding undefined is written as null.
JsonElement(v) == IF v.t = "undefined" THEN Null ELSE v

\* The analysis as the route reads it from the request body.
JsonAnalysis(analysis) ==
  [ analysis EXCEPT
      !.columns = [c \in 1..Len(@) |->
                     [ @[c] EXCEPT !.sampleValues =
                                     [i \in 1..Len(@) |-> JsonElement(@[i])] ]],
      !.dataPreview = [i \in 1..Len(@) |-> JsonRow(@[i])],
      !.completeness = JsonNumber(@),
      !.consistency = JsonNumber(@),
      !.accuracy = JsonNumber(@),
      !.validity = JsonNumber(@),
      !.overallScore = JsonNumber(@) ]

\* x < n for a score x: false on NaN, null converted to 0.
LessThan(x, n) ==
  IF x = NaN THEN FALSE ELSE IF x = JsonNull THEN 0 < n ELSE x < n

\* `${x}` for a score x
ScoreText(x) ==
  IF x = NaN THEN "NaN" ELSE IF x = JsonNull THEN "null" ELSE ToString(x)

RECURSIVE Join(_, _)
\* Array.prototype.join
Join(strings, separator) ==
  IF Len(strings) = 0 THEN ""
  ELSE IF Len(strings) = 1 THEN strings[1]
  ELSE Join(SubSeq(strings, 1, Len(strings) - 1), separator)
       \o separator \o strings[Len(strings)]

\* String.prototype.endsWith
EndsWith(s, suffix) ==
  Len(s) >= Len(suffix) /\ SubSeq(s, Len(s) - Len(suffix) + 1, Len(s)) = suffix

IsIdColumnName(name) ==
  ToLowerCase(name) = "id" \/ EndsWith(ToLowerCase(name), "_id")

\* value === null || value === undefined || value === "" || value === "-"
IsMissingMarker(v) ==
  v.t = "null" \/ v.t = "undefined" \/ (v.t = "string" /\ v.s \in {"", "-"})

\* issues.length > 1 ? "High" : "Medium"
InsightPriority(issueCount) == IF issueCount > 1 THEN "High" ELSE "Medium"

\* The own keys of a preview row, the id column aside, that hold a missing
\* marker: the body of the forEach over Object.keys(row).
AffectedColumns(row, idName) ==
  LET Flagged(colName) ==
        colName # idName /\ IsMissingMarker(Lookup(row, colName))
  IN  SelectSeq(ObjectKeys(row), Flagged)

\* The entry userIssues.push adds for one row with issues.
UserIssue(row, idName) ==
  LET userId == Lookup(row, idName)
      affectedColumns == AffectedColumns(row, idName)
      issues == [i \in 1..Len(affectedColumns) |->
                   "Missing " \o affectedColumns[i]]
  IN  [ userId |-> userId,
        insight |->
          [ priority |-> InsightPriority(Len(issues)),
            issue |-> "ID " \o userId.s \o ": " \o Join(issues, ", "),
            suggestion |->
              "Add/update the missing fields ("
              \o Join(affectedColumns, ", ") \o ") for user ID " \o userId.s,
            affectedColumns |-> affectedColumns,
            userId |-> userId ] ]

IsIdColumn(col) == IsIdColumnName(col.name)

\* The id column is the first column whose name is "id" or ends with "_id";
\* userIssues holds one entry per preview row with issues, in row order.
extractUserSpecificIssues(analysis) ==
  LET idColumns == SelectSeq(analysis.columns, IsIdColumn)
  IN  IF Len(idColumns) = 0 \/ Len(analysis.dataPreview) = 0 THEN <<>>
      ELSE
        LET idName == idColumns[1].name
            RowHasIssues(row) == Len(AffectedColumns(row, idName)) > 0
            rows == SelectSeq(analysis.dataPreview, RowHasIssues)
        IN  [i \in 1..Len(rows) |-> UserIssue(rows[i], idName)]

CompletenessInsight(analysis) ==
  [ priority |-> "High",
    issue |-> "Data completeness is " \o ScoreText(analysis.completeness)
              \o "% with missing values detected",
    suggestion |-> "Remove rows with missing values or impute using mean/median/mode depending on the column type",
    sqlFix |-> "-- Remove rows with NULL values\nDELETE FROM table_name WHERE column_name IS NULL;\n\n-- Or impute with a default value\nUPDATE table_name SET column_name = 'Unknown' WHERE column_name IS NULL;" ]

ConsistencyInsight ==
  [ priority |-> "Medium",
    issue |-> "Data consistency issues detected - format variations found",
    suggestion |-> "Standardize data formats across columns. Use TRIM, LOWER/UPPER functions",
    sqlFix |-> "-- Standardize text formatting\nUPDATE table_name SET column_name = LOWER(TRIM(column_name));" ]

AccuracyInsight ==
  [ priority |-> "High",
    issue |-> "Accuracy score is low - potential outliers or data entry errors detected",
    suggestion |-> "Review and correct data type mismatches and outliers",
    sqlFix |-> "-- Find potential outliers in numeric columns\nSELECT column_name, COUNT(*) FROM table_name \nWHERE column_name > (SELECT AVG(column_name) + 2*STDDEV(column_name))\nGROUP BY column_name;" ]

ValidityInsight ==
  [ priority |-> "Medium",
    issue |-> "Some data values do not match expected types or formats",
    suggestion |-> "Validate data against expected schemas and data types",
    sqlFix |-> "-- Check for invalid data types\nSELECT * FROM table_name WHERE column_name NOT LIKE '%valid_pattern%';" ]

\* Variant: a score equal to its threshold emits its item as well.
defaultInsightsInclusive(analysis) ==
  (IF LessThan(analysis.completeness, 96)
   THEN <<CompletenessInsight(analysis)>> ELSE <<>>)
  \o (IF LessThan(analysis.consistency, 86) THEN <<ConsistencyInsight>> ELSE <<>>)
  \o (IF LessThan(analysis.accuracy, 81) THEN <<AccuracyInsight>> ELSE <<>>)
  \o (IF LessThan(analysis.validity, 91) THEN <<ValidityInsight>> ELSE <<>>)

defaultInsights(analysis) ==
  (IF LessThan(analysis.completeness, 95)
   THEN <<CompletenessInsight(analysis)>> ELSE <<>>)
  \o (IF LessThan(analysis.consistency, 85) THEN <<ConsistencyInsight>> ELSE <<>>)
  \o (IF LessThan(analysis.accuracy, 80) THEN <<AccuracyInsight>> ELSE <<>>)
  \o (IF LessThan(analysis.validity, 90) THEN <<ValidityInsight>> ELSE <<>>)

\* What the external chat-completion call comes to: it throws (network,
\* rejected credentials, rate limit, timeout) or returns a message whose
\* content is null or a text.
LowItem ==
  [ priority |-> "Low",
    issue |-> "Duplicate names",
    suggestion |-> "Deduplicate the name column" ]

HighItem ==
  [ priority |-> "High",
    issue |-> "Invalid emails",
    suggestion |-> "Validate the email column" ]

UnknownPriorityItem == [ priority |-> "Critical", issue |-> "Duplicate names" ]

LowItemText ==
  "{\"priority\":\"Low\",\"issue\":\"Duplicate names\",\"suggestion\":\"Deduplicate the name column\"}"

HighItemText ==
  "{\"priority\":\"High\",\"issue\":\"Invalid emails\",\"suggestion\":\"Validate the email column\"}"

UnknownPriorityItemText ==
  "{\"priority\":\"Critical\",\"issue\":\"Duplicate names\"}"

TwoItemsText == "[" \o LowItemText \o "," \o HighItemText \o "]"

ServiceError == "Connection error."

ServiceReplies ==
  { Throw(ServiceError),
    Return([content |-> Null]),
    Return([content |-> Str("I cannot produce recommendations.")]),
    Return([content |-> Str("[see the summary above]")]),
    Return([content |-> Str("[]")]),
    Return([content |-> Str("Recommendations:\n" \o TwoItemsText \o "\nDone.")]),
    Return([content |-> Str("[" \o UnknownPriorityItemText \o "]")]) }

\* response.choices[0]?.message?.content || ""
ResponseText(reply) ==
  IF reply.value.content.t = "string" THEN reply.value.content.s ELSE ""

NoMatch == [found |-> FALSE, text |-> ""]

\* responseText.match(/\[[\s\S]*\]/): the text from the first "[" to the last
\* "]" after it.
MatchList(text) ==
  LET opens == { i \in 1..Len(text) : CharAt(text, i) = "[" }
      closes == { i \in 1..Len(text) : CharAt(text, i) = "]" }
      first == CHOOSE i \in opens : \A j \in opens : i <= j
      last == CHOOSE i \in closes : \A j \in closes : j <= i
  IN  IF opens = {} \/ closes = {} THEN NoMatch
      ELSE IF last < first THEN NoMatch
      ELSE [found |-> TRUE, text |-> SubSeq(text, first, last)]

\* JSON.parse(jsonMatch[0]) on the bracketed texts the service replies with:
\* the array the text stands for, or a SyntaxError.
JsonParseArray(text) ==
  IF text = "[]" THEN Return(<<>>)
  ELSE IF text = TwoItemsText THEN Return(<<LowItem, HighItem>>)
  ELSE IF text = "[" \o UnknownPriorityItemText \o "]"
  THEN Return(<<UnknownPriorityItem>>)
  ELSE Throw(SyntaxErrorMessage)

\* Variant: the catch clause passing the error on.
RethrowServiceError(analysis, userInsights) == Throw(ServiceError)

\* catch (error) { console.error(...); return [...] }
CatchServiceError(analysis, userInsights) ==
  Return(userInsights \o defaultInsights(analysis))

\* Variant: the dataset-level recommendations put first.
generateInsightsDatasetFirst(analysis, reply) ==
  LET userIssues == extractUserSpecificIssues(analysis)
      userInsights == [i \in 1..Len(userIssues) |-> userIssues[i].insight]
      jsonMatch == MatchList(ResponseText(reply))
      insights == JsonParseArray(jsonMatch.text)
  IN  IF reply.kind = "ok" /\ jsonMatch.found /\ insights.kind = "ok"
      THEN Return(insights.value \o userInsights)
      ELSE Return(defaultInsights(analysis) \o userInsights)

generateInsights(analysis, reply) ==
  LET userIssues == extractUserSpecificIssues(analysis)
      userInsights == [i \in 1..Len(userIssues) |-> userIssues[i].insight]
      jsonMatch == MatchList(ResponseText(reply))
      insights == JsonParseArray(jsonMatch.text)
  IN  IF reply.kind = "throw" THEN CatchServiceError(analysis, userInsights)
      ELSE IF jsonMatch.found
      THEN IF insights.kind = "throw"
           THEN CatchServiceError(analysis, userInsights)
           ELSE Return(userInsights \o insights.value)
      ELSE Return(userInsights \o defaultInsights(analysis))

\* new OpenAI({ apiKey: process.env.OPENAI_API_KEY }), run when the route's
\* module is loaded: the constructor throws when it is given no key.
OpenAIClient(key) ==
  IF key.t = "undefined"
  THEN Throw("The OPENAI_API_KEY environment variable is missing or empty")
  ELSE Return(key)

\* An insight as the page reads it from the response body.
JsonInsight(insight) ==
  IF "userId" \in DOMAIN insight /\ insight.userId.t = "undefined"
  THEN [k \in DOMAIN insight \ {"userId"} |-> insight[k]]
  ELSE insight

\* POST /api/analyze
POST(body, reply) ==
  IF "analysis" \notin DOMAIN body
  THEN [status |-> 400, body |-> [error |-> "Missing analysis data"]]
  ELSE
    LET insights == generateInsights(body.analysis, reply)
    IN  IF insights.kind = "ok"
        THEN [ status |-> 200,
               body |-> [insights |->
                           [i \in 1..Len(insights.value) |->
                              JsonInsight(insights.value[i])]] ]
        ELSE [status |-> 500, body |-> [error |-> insights.message]]

\* The response to a request whose route module failed to load.
ModuleLoadFailure(message) == [status |-> 500, body |-> [error |-> message]]

(***************************************************************************)
(* Analysis page (src/unnamed/part_001)                                    *)
(***************************************************************************)
InitialPage ==
  [ analysis |-> Null,
    insights |-> <<>>,
    loading |-> TRUE,
    progress |-> 0,
    error |-> Null,
    route |-> "/analysis" ]

\* Variant: no finally clause after the catch clause.
CaughtStillLoading(pg, message) ==
  [pg EXCEPT !.error = Str(message), !.progress = 0]

\* Variant: the catch clause leaving the progress where it was.
CaughtKeepingProgress(pg, message) ==
  [pg EXCEPT !.error = Str(message), !.loading = FALSE]

\* catch (err) { setError(err.message); setProgress(0) }
\* finally { setLoading(false) }
Caught(pg, message) ==
  [pg EXCEPT !.error = Str(message), !.progress = 0, !.loading = FALSE]

\* fileName.split(".").pop()?.toLowerCase()
Extension(fileName) ==
  LET dots == { i \in 1..Len(fileName) : CharAt(fileName, i) = "." }
      last == CHOOSE i \in dots : \A j \in dots : j <= i
  IN  ToLowerCase(IF dots = {} THEN fileName
                  ELSE SubSeq(fileName, last + 1, Len(fileName)))

\* decodeURIComponent(fileData): a "%" that starts no escape sequence makes
\* it throw a URIError.
decodeURIComponent(f) ==
  IF f.uri = "malformed" THEN Throw("URI malformed") ELSE Return(f)

NoResponse == [status |-> 0]

NoService == [kind |-> "none"]

\* The requests the route's client has sent to the external service, each
\* "pending", "fulfilled" or "rejected".
\* openai.chat.completions.create(...): one request is sent.
Create(log) == Append(log, "pending")

\* Variant: a rejected request sent once more.
SettledWithRetry(log, reply) ==
  IF reply.kind = "throw"
  THEN Append([log EXCEPT ![Len(log)] = "rejected"], "pending")
  ELSE [log EXCEPT ![Len(log)] = "fulfilled"]

\* The promise of create is settled: the await returns or throws.
Settled(log, reply) ==
  [log EXCEPT ![Len(log)] = IF reply.kind = "throw" THEN "rejected"
                                                   ELSE "fulfilled"]

(***************************************************************************)
(* Dashboard page (src/unnamed/part_003) and the report route              *)
(***************************************************************************)
\* sessionStorage.getItem returns null for a key never set.  An item is
\* kept as the value its JSON text parses to.
EmptyStorage == [analysisData |-> Null, insightsData |-> Null]

InitialDashboard ==
  [ analysis |-> Null,
    insights |-> <<>>,
    selectedColumn |-> Null,
    table |-> <<>>,
    step |-> "closed" ]

NoReport == [page |-> "none"]

\* The insights as JSON.parse(JSON.stringify(insights)) gives them back
JsonInsights(insights) == [i \in 1..Len(insights) |-> JsonInsight(insights[i])]

NamesOf(columns) == [c \in 1..Len(columns) |-> columns[c].name]

\* columns.sort((a, b) => b.nullCount - a.nullCount): the array itself is
\* reordered, columns of equal nullCount keep their order.
RECURSIVE SortByNullCount(_)
SortByNullCount(columns) ==
  IF columns = <<>> THEN <<>>
  ELSE LET sorted == SortByNullCount(SubSeq(columns, 1, Len(columns) - 1))
           last == columns[Len(columns)]
           ahead == SelectSeq(sorted, LAMBDA c : c.nullCount >= last.nullCount)
           behind == SelectSeq(sorted, LAMBDA c : c.nullCount < last.nullCount)
       IN  ahead \o <<last>> \o behind

\* The rows of the COLUMN DETAILS section, one per column
generateCSVReport(analysis) ==
  [ c \in 1..Len(analysis.columns) |->
      LET col == analysis.columns[c]
      IN  [ name |-> col.name,
            type |-> col.type,
            nullCount |-> col.nullCount,
            nullPercentage |-> col.nullPercentage,
            uniqueCount |-> col.uniqueCount,
            uniquePercentage |-> col.uniquePercentage,
            issues |-> Join(col.issues, "; ") ] ]

\* report.columns
generateJSONReport(analysis) == analysis.columns

\* POST /api/report
ReportRoute(body) ==
  IF body.analysis = Null
  THEN [status |-> 400, error |-> "Missing analysis data"]
  ELSE [ status |-> 200,
         format |-> body.format,
         columns |-> IF body.format = "csv"
                     THEN generateCSVReport(body.analysis)
                     ELSE generateJSONReport(body.analysis) ]

\* downloadReport(format) of either page: the report that is saved
downloadReport(analysis, insights, format) ==
  ReportRoute([ analysis |-> JsonAnalysis(analysis),
                insights |-> JsonInsights(insights),
                format |-> format ])

\* Which run of the page's effect wrote each piece of the page state last
\* (0: none)
NoWriter == [analysis |-> 0, insights |-> 0, error |-> 0, progress |-> 0]

(***************************************************************************)
(* Upload page (src/app/page.tsx)                                          *)
(***************************************************************************)
MAX_FILE_SIZE == 50 * 1024 * 1024

NoUpload == [verdict |-> "none"]

\* reading: the files whose text is awaited; handed: the file the router
\* was pushed to the analysis page with; last: the file handleFile dealt
\* with last and what became of it.
InitialHome ==
  [ error |-> Null,
    uploading |-> FALSE,
    route |-> "/",
    reading |-> <<>>,
    handed |-> NoUpload,
    last |-> NoUpload,
    count |-> 0 ]

ALLOWED_TYPES == {".csv", ".json"}

hasValidExtension(fileName) ==
  \E ext \in ALLOWED_TYPES : EndsWith(fileName, ext)

Rejected(h, f, message) ==
  [h EXCEPT !.error = Str(message),
            !.last = [verdict |-> "rejected", file |-> f]]

\* handleFile(file) up to its await: the two validations, or setUploading
\* and the read of the text started
handleFile(h, f) ==
  LET fileName == ToLowerCase(f.name)
      cleared == [h EXCEPT !.error = Null, !.count = @ + 1]
  IN  IF ~hasValidExtension(fileName)
      THEN Rejected(cleared, f, "Only CSV and JSON files are supported")
      ELSE IF f.size > MAX_FILE_SIZE
      THEN Rejected(cleared, f, "File size exceeds 50MB limit")
      ELSE [cleared EXCEPT !.uploading = TRUE,
                           !.reading = Append(@, f),
                           !.last = [verdict |-> "reading", file |-> f]]

\* handleFile(file) after its await: the text is there or the read failed;
\* JSON.parse for a .json name, then router.push, or the catch clause
handleText(h, f) ==
  IF ~f.readable
  THEN [Rejected(h, f, "The file could not be read") EXCEPT !.uploading = FALSE]
  ELSE IF EndsWith(ToLowerCase(f.name), ".json") /\ ~f.json
  THEN [Rejected(h, f, "Invalid JSON file format") EXCEPT !.uploading = FALSE]
  ELSE [h EXCEPT !.route = "/analysis",
                 !.handed = [verdict |-> "navigated", file |-> f],
                 !.last = [verdict |-> "navigated", file |-> f]]

NoDashboard ==
  /\ sessionStorage = EmptyStorage
  /\ dashboard = InitialDashboard
  /\ report = NoReport

NoRuns ==
  /\ runs = <<>>
  /\ written = NoWriter

NoHome == home = InitialHome

\* No page is open.
NoPage ==
  /\ page = InitialPage
  /\ requests = <<>>
  /\ response = NoResponse
  /\ service = NoService
  /\ apiKey = Undefined
  /\ calls = <<>>
  /\ NoDashboard
  /\ NoRuns
  /\ NoHome

(***************************************************************************)
(* SpecColumn: a column of raw values run through analyzeColumn, on every   *)
(* engine                                                                  *)
(***************************************************************************)
RECURSIVE SeqsUpTo(_, _)
SeqsUpTo(S, n) ==
  IF n = 0 THEN {<<>>}
  ELSE LET shorter == SeqsUpTo(S, n - 1)
       IN  shorter \cup { Append(q, x) : q \in shorter, x \in S }

NoColumn == [name |-> ""]

NoScores == [completeness |-> NaN]

NoFile == [ext |-> ""]

NoOutcome == [kind |-> "none"]

Repeat(x, n) == [i \in 1..n |-> x]

\* Every column of 1..MaxRows values.
ShortColumns == SeqsUpTo(Values, MaxRows) \ {<<>>}

\* Columns of up to MaxTallRows rows: missing values, then one value.
TallColumns ==
  UNION { { Repeat(Null, missing) \o Repeat(Str("abc"), rows - missing) :
              missing \in 0..rows } : rows \in 1..MaxTallRows }

\* Columns of up to MaxVaried rows with repeated and missing values among
\* more distinct values than the sample holds.
VariedValues ==
  << Num("1"), Null, Str("abc"), Num("1"), Str("Yes"), Num("0"), Str(""),
     Str("abc"), Num("999"), Num("4.8"), Str("0"), Bool("true") >>

VariedColumns ==
  { [i \in 1..n |-> VariedValues[((i - 1) % Len(VariedValues)) + 1]] :
      n \in 1..MaxVaried }

\* The engines that differ on a value of the column.
ColumnEngines(vals) ==
  SUBSET { c \in LegacyCandidates : \E i \in 1..Len(vals) : vals[i].s = c }

InitColumn ==
  /\ phase = "input"
  /\ values \in ShortColumns \cup TallColumns \cup VariedColumns
  /\ engine \in ColumnEngines(values)
  /\ column = NoColumn
  /\ cols = <<>>
  /\ stats = <<>>
  /\ scores = NoScores
  /\ file = NoFile
  /\ outcome = NoOutcome
  /\ NoPage

AnalyzeColumn ==
  /\ phase = "input"
  /\ column' = analyzeColumn("col", values)
  /\ phase' = "done"
  /\ UNCHANGED <<engine, values, cols, stats, scores, file, outcome, pageVars>>

NextColumn == AnalyzeColumn

SpecColumn == InitColumn /\ [][NextColumn]_vars

(***************************************************************************)
(* SpecScore: lists of column statistics, each the profile of a three-row  *)
(* column, run through the four scoring functions.  A list is up to        *)
(* MaxBase columns in any order followed by up to MaxRepeat copies of one  *)
(* column, so that the penalties can exceed 100.                           *)
(***************************************************************************)
AllMissingColumn == <<Str(""), Str(""), Str("")>>

DistinctTextColumn == <<Str("abc"), Str("Yes"), Str(" ")>>

BlankInNumbersColumn == <<Str(" "), Num("999"), Num("0")>>

OneNullColumn == <<Null, Num("999"), Num("4.8")>>

CleanNumbersColumn == <<Num("999"), Num("4.8"), Num("0")>>

ScoreColumns ==
  { AllMissingColumn, DistinctTextColumn, BlankInNumbersColumn,
    OneNullColumn, CleanNumbersColumn }

ColumnName(i) == "c" \o ToString(i)

InitScore ==
  /\ engine \in SUBSET LegacyCandidates
  /\ phase = "input"
  /\ values = <<>>
  /\ column = NoColumn
  /\ \E base \in SeqsUpTo(ScoreColumns, MaxBase), c \in ScoreColumns,
        n \in 0..MaxRepeat :
       cols = base \o Repeat(c, n)
  /\ stats = <<>>
  /\ scores = NoScores
  /\ file = NoFile
  /\ outcome = NoOutcome
  /\ NoPage

Profile ==
  /\ phase = "input"
  /\ stats' = [i \in 1..Len(cols) |-> analyzeColumn(ColumnName(i), cols[i])]
  /\ phase' = "profiled"
  /\ UNCHANGED <<engine, values, column, cols, scores, file, outcome, pageVars>>

Score ==
  /\ phase = "profiled"
  /\ scores' = [ completeness |-> calculateCompleteness(stats),
                 consistency |-> calculateConsistency(stats),
                 accuracy |-> calculateAccuracy(stats),
                 validity |-> calculateValidity(stats) ]
  /\ phase' = "done"
  /\ UNCHANGED <<engine, values, column, cols, stats, file, outcome, pageVars>>

NextScore == Profile \/ Score

SpecScore == InitScore /\ [][NextScore]_vars

(***************************************************************************)
(* Spec: a file of at most MaxFileRows records handed to the entry point   *)
(* its extension selects                                                   *)
(***************************************************************************)
FileKeys == {"id", "name"}

FileValues == {Null, Str(""), Str("abc"), Num("999")}

\* Records over FileKeys: no key twice, keys in any insertion order.
Records(vals) ==
  { r \in SeqsUpTo(FileKeys \X vals, Cardinality(FileKeys)) :
      \A i, j \in 1..Len(r) : i # j => r[i][1] # r[j][1] }

\* Papa.parse with header: true yields string fields only.
CsvValues == { v \in FileValues : v.t = "string" }

JsonFiles ==
  { [ext |-> "json", valid |-> TRUE, top |-> "array", rows |-> rs] :
      rs \in SeqsUpTo(Records(FileValues), MaxFileRows) }
  \cup
  { [ext |-> "json", valid |-> TRUE, top |-> "object", rows |-> <<r>>] :
      r \in Records(FileValues) }
  \cup
  { [ext |-> "json", valid |-> FALSE, top |-> "array", rows |-> <<>>] }

CsvFiles ==
  { [ext |-> "csv", valid |-> TRUE, top |-> "array", rows |-> rs] :
      rs \in SeqsUpTo(Records(CsvValues), MaxFileRows) }

\* Records whose keys include array indices, which Object.keys lists first.
IndexKeys == {"name", "10", "9"}

IndexRecords ==
  { r \in SeqsUpTo(IndexKeys \X {Str("abc")}, Cardinality(IndexKeys)) :
      \A i, j \in 1..Len(r) : i # j => r[i][1] # r[j][1] }

IndexKeyFiles ==
  { [ext |-> e, valid |-> TRUE, top |-> "array", rows |-> rs] :
      e \in {"json", "csv"}, rs \in SeqsUpTo(IndexRecords, MaxFileRows) }

\* Files of up to MaxTallFile records, record i holding i: longer than the
\* preview.
NumberedRows(n) == [i \in 1..n |-> << <<"id", Num(ToString(i))>> >>]

TallFiles ==
  { [ext |-> "json", valid |-> TRUE, top |-> "array", rows |-> NumberedRows(n)] :
      n \in 1..MaxTallFile }

\* Files of up to MaxBlankRows records with one key, over a missing value,
\* a whitespace-only string and a number.
BlankValues == {Null, Str(" "), Num("999")}

BlankFiles ==
  UNION { { [ext |-> "json", valid |-> TRUE, top |-> "array",
             rows |-> [i \in 1..n |-> << <<"id", v[i]>> >>]] :
              v \in [1..n -> BlankValues] } : n \in 1..MaxBlankRows }

FileEngines == SUBSET (LegacyCandidates \cap { v.s : v \in FileValues })

Init ==
  /\ engine \in FileEngines
  /\ phase = "input"
  /\ values = <<>>
  /\ column = NoColumn
  /\ cols = <<>>
  /\ stats = <<>>
  /\ scores = NoScores
  /\ file \in JsonFiles \cup CsvFiles \cup IndexKeyFiles \cup TallFiles
            \cup BlankFiles
  /\ outcome = NoOutcome
  /\ NoPage

AnalyzeCSV ==
  /\ phase = "input"
  /\ file.ext = "csv"
  /\ outcome' = analyzeCSV(file, "data.csv")
  /\ phase' = "done"
  /\ UNCHANGED <<engine, values, column, cols, stats, scores, file, pageVars>>

AnalyzeJSON ==
  /\ phase = "input"
  /\ file.ext = "json"
  /\ outcome' = analyzeJSON(file, "data.json")
  /\ phase' = "done"
  /\ UNCHANGED <<engine, values, column, cols, stats, scores, file, pageVars>>

Next == AnalyzeCSV \/ AnalyzeJSON

Spec == Init /\ [][Next]_vars

(***************************************************************************)
(* SpecFallback: four scores at and around the thresholds handed to         *)
(* defaultInsights                                                         *)
(***************************************************************************)
Thresholds == {95, 85, 80, 90}

ScoreSamples ==
  {0, 100} \cup { t + d : t \in Thresholds, d \in (0 - MaxMargin)..MaxMargin }

\* The scores of a result as the route receives them: four integers, or a
\* null completeness where the analysis had no column.
ScoreInputs ==
  [ completeness : ScoreSamples, consistency : ScoreSamples,
    accuracy : ScoreSamples, validity : ScoreSamples ]
  \cup
  { [ completeness |-> JsonNull, consistency |-> 100,
      accuracy |-> 100, validity |-> 100 ] }

InitFallback ==
  /\ engine = {}
  /\ phase = "input"
  /\ values = <<>>
  /\ column = NoColumn
  /\ cols = <<>>
  /\ stats = <<>>
  /\ scores \in ScoreInputs
  /\ file = NoFile
  /\ outcome = NoOutcome
  /\ NoPage

DefaultInsights ==
  /\ phase = "input"
  /\ outcome' = Return(defaultInsights(scores))
  /\ phase' = "done"
  /\ UNCHANGED <<engine, values, column, cols, stats, scores, file, pageVars>>

NextFallback == DefaultInsights

SpecFallback == InitFallback /\ [][NextFallback]_vars

(***************************************************************************)
(* SpecPage: the analysis page opened on a file, from its effect to the     *)
(* end of analyzeFile, with the route and the external service in between   *)
(***************************************************************************)
PageHeaders ==
  { <<"id", "name", "email">>,
    <<"name", "Order_ID", "email">>,
    <<"valid", "name", "email">> }

IdHeader == <<"id", "name", "email">>

NameValues == {Null, Str(""), Str("-"), Str("abc")}

EmailValues == {Str("-"), Str("a@b.c")}

KeyValues(key) ==
  IF key = "name" THEN NameValues
  ELSE IF key = "email" THEN EmailValues
  ELSE {Str("K")}

\* A key left out, or held with one of its values
Field(key) == {<<>>} \cup { << <<key, v>> >> : v \in KeyValues(key) }

\* Every record over a header: each key absent or present, in header order.
PageRecords(h) ==
  { a \o b \o c : a \in Field(h[1]), b \in Field(h[2]), c \in Field(h[3]) }

\* The record over a header that holds a value under every key
FullRecord(h) ==
  [ i \in 1..Len(h) |->
      <<h[i], CHOOSE v \in KeyValues(h[i]) : ~IsMissingMarker(v)>> ]

\* Papa.parse yields string fields only.
IsCsvRecord(r) == \A i \in 1..Len(r) : r[i][2].t = "string"

\* No full record ahead, or so many that the free records fall out of the
\* preview.
Fillers(h) == { <<>>, Repeat(FullRecord(h), MaxFiller) }

PageFile(name, valid, rows) ==
  [name |-> name, valid |-> valid, top |-> "array", uri |-> "plain", rows |-> rows]

JsonPageFiles ==
  { PageFile("data.json", TRUE, filler \o <<a, b>>) :
      filler \in Fillers(IdHeader),
      a \in PageRecords(IdHeader), b \in PageRecords(IdHeader) }
  \cup
  UNION { { PageFile("data.json", TRUE, filler \o <<FullRecord(h), b>>) :
              filler \in Fillers(h), b \in PageRecords(h) } :
          h \in PageHeaders \ {IdHeader} }

CsvPageFiles ==
  { PageFile("data.csv", TRUE, filler \o <<FullRecord(IdHeader), b>>) :
      filler \in Fillers(IdHeader),
      b \in { r \in PageRecords(IdHeader) : IsCsvRecord(r) } }

\* Files the run stops at: text that is no JSON, no record at all, a name
\* with another extension or none, data that does not decode.
FailingPageFiles ==
  { PageFile("data.json", FALSE, <<>>),
    PageFile("data.JSON", TRUE, <<>>),
    PageFile("data.csv", TRUE, <<>>),
    PageFile("data.txt", TRUE, <<FullRecord(IdHeader)>>),
    PageFile("data", TRUE, <<FullRecord(IdHeader)>>),
    [ PageFile("data.csv", TRUE, <<FullRecord(IdHeader)>>)
        EXCEPT !.uri = "malformed" ] }

PageFiles == JsonPageFiles \cup CsvPageFiles \cup FailingPageFiles

PageStrings ==
  UNION { { v.s : v \in KeyValues(h[i]) } : h \in PageHeaders, i \in 1..3 }

PageEngines == SUBSET (LegacyCandidates \cap PageStrings)

\* The page is opened with or without its two parameters; the server has a
\* key to the external service or none.
InitPage ==
  /\ engine \in PageEngines
  /\ phase = "mount"
  /\ values = <<>>
  /\ column = NoColumn
  /\ cols = <<>>
  /\ stats = <<>>
  /\ scores = NoScores
  /\ file \in PageFiles \cup {NoFile}
  /\ outcome = NoOutcome
  /\ page = InitialPage
  /\ requests = <<>>
  /\ response = NoResponse
  /\ service = NoService
  /\ apiKey \in {Undefined, Str("sk-key")}
  /\ calls = <<>>
  /\ NoDashboard
  /\ NoRuns
  /\ NoHome

\* if (!fileData || !fileName) { router.push("/"); return; }
Redirect ==
  /\ phase = "mount"
  /\ file = NoFile
  /\ page' = [page EXCEPT !.route = "/"]
  /\ phase' = "done"
  /\ UNCHANGED <<engine, values, column, cols, stats, scores, file, outcome,
                 requests, response, service, apiKey, calls, viewVars,
                 otherPages>>

\* What the decoding and the analysis of analyzeFile come to: the result of
\* the entry point the extension selects, or what was thrown on the way.
analysisResult(f) ==
  LET decodedData == decodeURIComponent(f)
      extension == Extension(f.name)
  IN  IF decodedData.kind = "throw" THEN decodedData
      ELSE IF extension = "csv" THEN analyzeCSV(decodedData.value, f.name)
      ELSE IF extension = "json" THEN analyzeJSON(decodedData.value, f.name)
      ELSE Throw("Unsupported file format")

\* analyzeFile awaits the promise of analyzeCSV before it goes on.
AwaitsCSV(f) ==
  decodeURIComponent(f).kind = "ok" /\ Extension(f.name) = "csv"

\* analyzeFile from the analysis on: setAnalysis, setProgress(75) and the
\* fetch, or the catch and the finally clause when something was thrown.
Continue(pg, result) ==
  IF result.kind = "throw"
  THEN /\ page' = Caught(pg, result.message)
       /\ phase' = "done"
       /\ UNCHANGED requests
  ELSE /\ page' = [pg EXCEPT !.analysis = result.value, !.progress = 75]
       /\ requests' = Append(requests, [analysis |-> JsonAnalysis(result.value)])
       /\ phase' = "fetching"

\* analyzeFile up to its first await: the promise of analyzeCSV, or the
\* fetch after analyzeJSON.
Start ==
  /\ phase = "mount"
  /\ file # NoFile
  /\ outcome' = analysisResult(file)
  /\ IF AwaitsCSV(file)
     THEN /\ page' = [page EXCEPT !.progress = 25]
          /\ phase' = "parsing"
          /\ UNCHANGED requests
     ELSE Continue([page EXCEPT !.progress = 25], outcome')
  /\ UNCHANGED <<engine, values, column, cols, stats, scores, file,
                 response, service, apiKey, calls, viewVars, otherPages>>

\* analyzeFile resumed when the promise of analyzeCSV is settled
ResumeCSV ==
  /\ phase = "parsing"
  /\ Continue(page, outcome)
  /\ UNCHANGED <<engine, values, column, cols, stats, scores, file, outcome,
                 response, service, apiKey, calls, viewVars, otherPages>>

\* The server takes the request: the route's module is loaded and the
\* route runs generateInsights up to its await, the one request to the
\* external service sent.  Without a client the module fails to load and
\* the server answers at once.
Post ==
  /\ phase = "fetching"
  /\ LET openai == OpenAIClient(apiKey)
     IN  IF openai.kind = "throw"
         THEN /\ response' = ModuleLoadFailure(openai.message)
              /\ phase' = "responded"
              /\ UNCHANGED calls
         ELSE /\ calls' = Create(calls)
              /\ phase' = "asking"
              /\ UNCHANGED response
  /\ UNCHANGED <<engine, values, column, cols, stats, scores, file, outcome,
                 page, requests, service, apiKey, viewVars, otherPages>>

\* The external service replies one way or another: generateInsights goes
\* on after its await and the route answers.
Reply ==
  /\ phase = "asking"
  /\ \E reply \in ServiceReplies :
       /\ service' = reply
       /\ calls' = Settled(calls, reply)
       /\ response' = POST(requests[Len(requests)], reply)
  /\ phase' = "responded"
  /\ UNCHANGED <<engine, values, column, cols, stats, scores, file, outcome,
                 page, requests, apiKey, viewVars, otherPages>>

\* The request never gets an answer: fetch rejects.
FetchRejects ==
  /\ phase = "fetching"
  /\ page' = Caught(page, "Failed to fetch")
  /\ phase' = "done"
  /\ UNCHANGED <<engine, values, column, cols, stats, scores, file, outcome,
                 requests, response, service, apiKey, calls, viewVars,
                 otherPages>>

\* analyzeFile resumed with the response
Receive ==
  /\ phase = "responded"
  /\ page' = IF response.status \in 200..299
             THEN [page EXCEPT !.insights = response.body.insights,
                               !.progress = 100,
                               !.loading = FALSE]
             ELSE Caught(page, "Failed to generate AI insights")
  /\ phase' = "done"
  /\ UNCHANGED <<engine, values, column, cols, stats, scores, file, outcome,
                 requests, response, service, apiKey, calls, viewVars,
                 otherPages>>

\* The results are on display: neither the loading nor the error view.
ResultsShown ==
  /\ phase = "done"
  /\ page.route = "/analysis"
  /\ ~page.loading
  /\ page.error = Null
  /\ page.analysis # Null

\* A download button of the analysis page is clicked.
DownloadReport ==
  /\ ResultsShown
  /\ report = NoReport
  /\ \E format \in {"csv", "json"} :
       report' = [ page |-> "/analysis",
                   response |-> downloadReport(page.analysis, page.insights,
                                               format) ]
  /\ UNCHANGED <<engine, phase, values, column, cols, stats, scores, file,
                 outcome, page, requests, response, service, apiKey, calls,
                 sessionStorage, dashboard, otherPages>>

\* "View Full Dashboard" is clicked: the analysis and the insights are put
\* into sessionStorage and the router is pushed to the dashboard.
ViewDashboard ==
  /\ ResultsShown
  /\ sessionStorage' = [ analysisData |-> JsonAnalysis(page.analysis),
                         insightsData |-> JsonInsights(page.insights) ]
  /\ page' = [page EXCEPT !.route = "/dashboard"]
  /\ dashboard' = [InitialDashboard EXCEPT !.step = "mounted"]
  /\ UNCHANGED <<engine, phase, values, column, cols, stats, scores, file,
                 outcome, requests, response, service, apiKey, calls, report,
                 otherPages>>

\* The dashboard's first effect reads sessionStorage, and the page is
\* rendered with its column table.
LoadDashboard ==
  /\ dashboard.step = "mounted"
  /\ LET parsed == sessionStorage.analysisData
     IN  dashboard' =
           [ analysis |-> parsed,
             insights |-> sessionStorage.insightsData,
             selectedColumn |-> IF Len(parsed.columns) > 0
                                THEN Str(parsed.columns[1].name) ELSE Null,
             table |-> NamesOf(parsed.columns),
             step |-> "rendered" ]
  /\ UNCHANGED <<engine, phase, values, column, cols, stats, scores, file,
                 outcome, page, requests, response, service, apiKey, calls,
                 sessionStorage, report, otherPages>>

\* The dashboard's second effect draws the charts; for the null values
\* chart it sorts analysis.columns.
DrawCharts ==
  /\ dashboard.step = "rendered"
  /\ dashboard' = [dashboard EXCEPT !.analysis.columns = SortByNullCount(@),
                                    !.step = "charted"]
  /\ UNCHANGED <<engine, phase, values, column, cols, stats, scores, file,
                 outcome, page, requests, response, service, apiKey, calls,
                 sessionStorage, report, otherPages>>

\* A download button of the dashboard is clicked: setDownloading renders the
\* page again and the report is fetched.
DownloadDashboardReport ==
  /\ dashboard.step = "charted"
  /\ report.page # "/dashboard"
  /\ \E format \in {"csv", "json"} :
       report' = [ page |-> "/dashboard",
                   response |-> downloadReport(dashboard.analysis,
                                               dashboard.insights, format) ]
  /\ dashboard' = [dashboard EXCEPT !.table = NamesOf(dashboard.analysis.columns)]
  /\ UNCHANGED <<engine, phase, values, column, cols, stats, scores, file,
                 outcome, page, requests, response, service, apiKey, calls,
                 sessionStorage, otherPages>>

NextPage ==
  \/ Redirect \/ Start \/ ResumeCSV \/ Post \/ Reply \/ FetchRejects
  \/ Receive
  \/ DownloadReport \/ ViewDashboard \/ LoadDashboard \/ DrawCharts
  \/ DownloadDashboardReport

SpecPage == InitPage /\ [][NextPage]_vars

\* The files of two records without fillers whose second record holds
\* every key, the file whose first record holds none, and the files a run
\* stops at.
FairFiles ==
  { f \in JsonPageFiles \cup CsvPageFiles :
      /\ Len(f.rows) = 2
      /\ \/ f.rows[1] = FullRecord(IdHeader) /\ Len(f.rows[2]) = Len(IdHeader)
         \/ f.rows = << <<>>, FullRecord(IdHeader) >> }
  \cup FailingPageFiles

InitPageFair ==
  /\ InitPage
  /\ file \in FairFiles \cup {NoFile}

\* The event loop runs a continuation once its promise is settled; the
\* request to /api/analyze is answered or fails, and so is the route's
\* request to the external service.
SpecPageFair ==
  /\ InitPageFair
  /\ [][NextPage]_vars
  /\ WF_vars(ResumeCSV)
  /\ WF_vars(Post \/ FetchRejects)
  /\ WF_vars(Reply)
  /\ WF_vars(Receive)

(***************************************************************************)
(* SpecRuns: the analysis page whose effect fires again (its search         *)
(* parameters change while it is mounted).  The effect has no cleanup:     *)
(* every run of analyzeFile goes on to its end and all of them set the     *)
(* state of the one page.                                                  *)
(***************************************************************************)
RunFiles ==
  { PageFile("a.json", TRUE, <<FullRecord(IdHeader)>>),
    PageFile("b.json", TRUE,
             <<FullRecord(IdHeader),
               << <<"id", Str("K")>>, <<"name", Null>>,
                  <<"email", Str("a@b.c")>> >> >>),
    PageFile("c.csv", TRUE, <<FullRecord(IdHeader)>>) }

RunReplies ==
  { Throw(ServiceError),
    Return([content |-> Str("Recommendations:\n" \o TwoItemsText \o "\nDone.")]) }

InitRuns ==
  /\ engine = {}
  /\ phase = "mount"
  /\ values = <<>>
  /\ column = NoColumn
  /\ cols = <<>>
  /\ stats = <<>>
  /\ scores = NoScores
  /\ file = NoFile
  /\ outcome = NoOutcome
  /\ page = InitialPage
  /\ requests = <<>>
  /\ response = NoResponse
  /\ service = NoService
  /\ apiKey \in {Undefined, Str("sk-key")}
  /\ calls = <<>>
  /\ NoDashboard
  /\ NoRuns
  /\ NoHome

\* An earlier run has sent its request and has not been resumed with the
\* response.
AwaitingResponse == \E j \in 1..Len(runs) : runs[j].step \in {"fetching", "responded"}

\* Run i of analyzeFile from the analysis on, as Continue
ContinueRun(i, pg, wr, rs, result) ==
  IF result.kind = "throw"
  THEN /\ page' = Caught(pg, result.message)
       /\ written' = [wr EXCEPT !.error = i, !.progress = i]
       /\ runs' = [rs EXCEPT ![i].step = "done"]
  ELSE /\ page' = [pg EXCEPT !.analysis = result.value, !.progress = 75]
       /\ written' = [wr EXCEPT !.analysis = i, !.progress = i]
       /\ runs' = [rs EXCEPT ![i].step = "fetching",
                             ![i].request =
                               [analysis |-> JsonAnalysis(result.value)]]

\* The effect fires with the parameters of a file: analyzeFile up to its
\* first await.
StartRun ==
  /\ Len(runs) < MaxRuns
  /\ \E f \in RunFiles :
       /\ outcome' = analysisResult(f)
       /\ LET i == Len(runs) + 1
              started == Append(runs, [ file |-> f,
                                        step |-> "parsing",
                                        result |-> outcome',
                                        request |-> NoResponse,
                                        response |-> NoResponse,
                                        overlaps |-> AwaitingResponse ])
          IN  IF AwaitsCSV(f)
              THEN /\ runs' = started
                   /\ page' = [page EXCEPT !.progress = 25]
                   /\ written' = [written EXCEPT !.progress = i]
              ELSE ContinueRun(i, [page EXCEPT !.progress = 25],
                               [written EXCEPT !.progress = i], started,
                               outcome')
  /\ UNCHANGED <<engine, phase, values, column, cols, stats, scores, file,
                 requests, response, service, apiKey, calls, viewVars, home>>

\* Run i resumed when the promise of analyzeCSV is settled
ResumeRun ==
  /\ \E i \in 1..Len(runs) :
       /\ runs[i].step = "parsing"
       /\ ContinueRun(i, page, written, runs, runs[i].result)
  /\ UNCHANGED <<engine, phase, values, column, cols, stats, scores, file,
                 outcome, requests, response, service, apiKey, calls,
                 viewVars, home>>

\* The server answers the request of run i.
AnswerRun ==
  /\ \E i \in 1..Len(runs) :
       /\ runs[i].step = "fetching"
       /\ LET openai == OpenAIClient(apiKey)
          IN  \E reply \in RunReplies :
                runs' = [runs EXCEPT
                           ![i].step = "responded",
                           ![i].response =
                             IF openai.kind = "throw"
                             THEN ModuleLoadFailure(openai.message)
                             ELSE POST(runs[i].request, reply)]
  /\ UNCHANGED <<engine, phase, values, column, cols, stats, scores, file,
                 outcome, page, requests, response, service, apiKey, calls,
                 viewVars, written, home>>

\* The request of run i never gets an answer: fetch rejects.
RejectRun ==
  /\ \E i \in 1..Len(runs) :
       /\ runs[i].step = "fetching"
       /\ page' = Caught(page, "Failed to fetch")
       /\ written' = [written EXCEPT !.error = i, !.progress = i]
       /\ runs' = [runs EXCEPT ![i].step = "done"]
  /\ UNCHANGED <<engine, phase, values, column, cols, stats, scores, file,
                 outcome, requests, response, service, apiKey, calls,
                 viewVars, home>>

\* Run i resumed with its response
ReceiveRun ==
  /\ \E i \in 1..Len(runs) :
       /\ runs[i].step = "responded"
       /\ IF runs[i].response.status \in 200..299
          THEN /\ page' = [page EXCEPT
                            !.insights = runs[i].response.body.insights,
                            !.progress = 100,
                            !.loading = FALSE]
               /\ written' = [written EXCEPT !.insights = i, !.progress = i]
          ELSE /\ page' = Caught(page, "Failed to generate AI insights")
               /\ written' = [written EXCEPT !.error = i, !.progress = i]
       /\ runs' = [runs EXCEPT ![i].step = "done"]
  /\ UNCHANGED <<engine, phase, values, column, cols, stats, scores, file,
                 outcome, requests, response, service, apiKey, calls,
                 viewVars, home>>

NextRuns == StartRun \/ ResumeRun \/ AnswerRun \/ RejectRun \/ ReceiveRun

SpecRuns == InitRuns /\ [][NextRuns]_vars

(***************************************************************************)
(* SpecHome: the upload page.  A file comes in through the file input,     *)
(* which is disabled while uploading, or is dropped on the drop zone,      *)
(* which is not.                                                           *)
(***************************************************************************)
UploadNames ==
  { "data.csv", "DATA.CSV", "data.json", "Data.Json", "data.txt", "data",
    "json", "data.csv.bak" }

UploadSizes == {0, MAX_FILE_SIZE, MAX_FILE_SIZE + 1}

\* json: the text parses as JSON; readable: file.text() is fulfilled.
UploadFiles ==
  [ name : UploadNames, size : UploadSizes, json : BOOLEAN,
    readable : BOOLEAN ]

InitHome ==
  /\ engine = {}
  /\ phase = "input"
  /\ values = <<>>
  /\ column = NoColumn
  /\ cols = <<>>
  /\ stats = <<>>
  /\ scores = NoScores
  /\ file = NoFile
  /\ outcome = NoOutcome
  /\ NoPage

\* handleFileInput: a file is chosen through the file input.
ChooseFile ==
  /\ home.route = "/"
  /\ ~home.uploading
  /\ home.count < MaxUploads
  /\ \E f \in UploadFiles : home' = handleFile(home, f)
  /\ UNCHANGED <<engine, phase, values, column, cols, stats, scores, file,
                 outcome, page, requests, response, service, apiKey, calls,
                 viewVars, runs, written>>

\* handleDrop: a file is dropped on the drop zone.
DropFile ==
  /\ home.route = "/"
  /\ home.count < MaxUploads
  /\ \E f \in UploadFiles : home' = handleFile(home, f)
  /\ UNCHANGED <<engine, phase, values, column, cols, stats, scores, file,
                 outcome, page, requests, response, service, apiKey, calls,
                 viewVars, runs, written>>

\* The promise of file.text() is settled and handleFile goes on.
ReadFile ==
  /\ \E k \in 1..Len(home.reading) :
       home' = handleText(
                 [home EXCEPT !.reading =
                    SubSeq(@, 1, k - 1) \o SubSeq(@, k + 1, Len(@))],
                 home.reading[k])
  /\ UNCHANGED <<engine, phase, values, column, cols, stats, scores, file,
                 outcome, page, requests, response, service, apiKey, calls,
                 viewVars, runs, written>>

NextHome == ChooseFile \/ DropFile \/ ReadFile

SpecHome == InitHome /\ [][NextHome]_vars

(***************************************************************************)
(* Properties                                                              *)
(***************************************************************************)
MissingMarkers == {Null, Undefined, Str("")}

\* The rows of the analysed column that hold a value.
PresentRows == { i \in 1..Len(values) : values[i] \notin MissingMarkers }

\* p is x / d rounded to the nearest integer, a half counting upwards.
IsRounded(p, x, d) == (2 * p - 1) * d <= 2 * x /\ 2 * x < (2 * p + 1) * d

TextColumns == { i \in 1..Len(stats) : stats[i].type = "text" }

ColumnsWithIssues == { i \in 1..Len(stats) : stats[i].issues # <<>> }

\* C1: for every non-empty input, a first record without keys included, the
\* four scores are integers in 0..100 and overallScore is the rounded mean
\* of the four.
CexC1_ScoresInRange ==
  (phase = "done" /\ outcome.kind = "ok") =>
    LET r == outcome.value
    IN  /\ r.completeness \in 0..100
        /\ r.consistency \in 0..100
        /\ r.accuracy \in 0..100
        /\ r.validity \in 0..100
        /\ IsRounded(r.overallScore,
                     r.completeness + r.consistency + r.accuracy + r.validity, 4)

\* C2, as claimed: completeness is 100 minus the rounded mean of the columns'
\* missing rates, the mean being rounded before the subtraction.
CexC2_RoundBeforeSubtraction ==
  (phase = "done" /\ Len(stats) > 0) =>
    scores.completeness = 100 - MathRound(SumNullPercentage(stats), Len(stats))

\* C2, amended: for a non-empty list, completeness is 100 minus the mean of
\* the missing rates, rounded after the subtraction (a half counting
\* upwards); it is 100 - round(mean) unless the mean ends in one half, and
\* then it is one more.
ThmC2_RoundAfterSubtraction ==
  (phase = "done" /\ Len(stats) > 0) =>
    LET n == Len(stats)
        sum == SumNullPercentage(stats)
        half == (2 * sum) % (2 * n) = n
    IN  /\ scores.completeness \in 0..100
        /\ IsRounded(scores.completeness, 100 * n - sum, n)
        /\ scores.completeness =
             100 - MathRound(sum, n) + (IF half THEN 1 ELSE 0)

WitC2_HalfMean ==
  /\ phase = "done"
  /\ cols = <<OneNullColumn, CleanNumbersColumn>>
  /\ stats[1].nullPercentage = 33
  /\ stats[2].nullPercentage = 0
  /\ scores.completeness = 84

NonNumericStrings ==
  { ij \in UNION { { <<i, j>> : j \in 1..Len(stats[i].issues) } :
                   i \in 1..Len(stats) } :
      \E n \in 1..stats[ij[1]].totalRows :
        stats[ij[1]].issues[ij[2]] = ToString(n) \o " non-numeric values found" }

ThmC6_TypePriority ==
  phase = "done" =>
    LET allBoolean == \A i \in PresentRows :
                        ToLowerCase(values[i].s) \in BooleanTokens
        allDate == \A i \in PresentRows : DateParses(values[i].s)
        allInteger == \A i \in PresentRows : IsIntegerNumber(values[i])
        allFloat == \A i \in PresentRows : ~ParseFloatIsNaN(values[i].s)
    IN  /\ PresentRows = {} => column.type = "text"
        /\ PresentRows # {} =>
             /\ column.type = "boolean" <=> allBoolean
             /\ column.type = "date" <=> ~allBoolean /\ allDate
             /\ column.type = "integer" <=>
                  ~allBoolean /\ ~allDate /\ allInteger
             /\ column.type = "float" <=>
                  ~allBoolean /\ ~allDate /\ ~allInteger /\ allFloat
             /\ column.type = "text" <=>
                  ~allBoolean /\ ~allDate /\ ~allInteger /\ ~allFloat
             /\ (\A i \in PresentRows : values[i] \in {Num("0"), Num("1")})
                  => column.type = "boolean"

WitC6_ZeroOneIsBoolean ==
  /\ phase = "done"
  /\ values = <<Num("0"), Null, Num("1")>>
  /\ {"0", "1"} \subseteq engine
  /\ column.type = "boolean"

\* C7: nullCount plus the number of present values is totalRows, uniqueCount
\* is the number of distinct present values and at most totalRows -
\* nullCount; missing means null, undefined or "" (not 0, not "0") for the
\* count, the uniqueness set and type inference alike.
ThmC7_MissingPartition ==
  phase = "done" =>
    /\ column.totalRows = Len(values)
    /\ column.nullCount + Cardinality(PresentRows) = column.totalRows
    /\ column.uniqueCount = Cardinality({ values[i] : i \in PresentRows })
    /\ column.uniqueCount <= column.totalRows - column.nullCount
    /\ \A i \in 1..Len(values) :
         /\ IsMissing(values[i]) <=> values[i] \in MissingMarkers
         /\ IsPresent(values[i]) <=> values[i] \notin MissingMarkers
    /\ \A i \in 1..Len(column.sampleValues) :
         column.sampleValues[i] \notin MissingMarkers
    /\ column.nullCount = column.totalRows => column.type = "text"

WitC7_ZeroIsNotMissing ==
  /\ phase = "done"
  /\ values = <<Num("0"), Str("0"), Str("")>>
  /\ column.nullCount = 1
  /\ column.uniqueCount = 2
  /\ column.type = "boolean"

\* C8: nullPercentage and uniquePercentage are 100 * count / totalRows
\* rounded, totalRows counting the missing rows too, and both are in 0..100.
CexC8_Percentages ==
  phase = "done" =>
    /\ Len(values) > 0
    /\ column.nullPercentage \in 0..100
    /\ column.uniquePercentage \in 0..100
    /\ IsRounded(column.nullPercentage,
                 100 * (Len(values) - Cardinality(PresentRows)), Len(values))
    /\ IsRounded(column.uniquePercentage,
                 100 * Cardinality({ values[i] : i \in PresentRows }),
                 Len(values))

MissingValueStrings ==
  { j \in 1..Len(column.issues) : Includes(column.issues[j], "missing values") }

\* C9: a column without a missing value has nullPercentage 0 and no "missing
\* values" issue; a column with one has exactly one, "<n> missing values
\* (<pct>%)" with its missing count and its nullPercentage.
ThmC9_MissingIssue ==
  phase = "done" =>
    LET missing == Len(values) - Cardinality(PresentRows)
    IN  /\ missing = 0 =>
             column.nullPercentage = 0 /\ MissingValueStrings = {}
        /\ missing > 0 =>
             /\ Cardinality(MissingValueStrings) = 1
             /\ \A j \in MissingValueStrings :
                  column.issues[j] =
                    ToString(missing) \o " missing values ("
                      \o ToString(column.nullPercentage) \o "%)"

WitC9_OneMissingOfTwo ==
  /\ phase = "done"
  /\ values = <<Null, Num("999")>>
  /\ column.issues = <<"1 missing values (50%)">>

\* An error the caller can only take for a decode error: its message says so.
IsParseError(message) ==
  \/ Len(message) >= 19 /\ SubSeq(message, 1, 19) = "JSON parsing error:"
  \/ Len(message) >= 18 /\ SubSeq(message, 1, 18) = "CSV parsing error:"

\* C10: on an empty row sequence either entry point fails with the
\* empty-dataset error, which the caller can tell from a decode error, and
\* produces no result.
CexC10_EmptyDatasetError ==
  (phase = "done" /\ file.valid /\ file.rows = <<>>) =>
    /\ outcome.kind = "throw"
    /\ outcome.message = EmptyDatasetMessage
    /\ ~IsParseError(outcome.message)

\* The keys of a record in the order they were inserted
InsertedKeys(row) == [i \in 1..Len(row) |-> row[i][1]]

HasKey(row, key) == \E i \in 1..Len(row) : row[i][1] = key

\* The rows in which the column holds nothing: the key is absent or its value
\* is a missing marker.
RowsLacking(rows, key) ==
  { i \in 1..Len(rows) :
      ~HasKey(rows[i], key) \/ Lookup(rows[i], key) \in MissingMarkers }

\* C11: the columns of a result are the keys of the first record in the order
\* they were inserted, totalColumns is their number, and a column's nullCount
\* counts the rows whose lookup by that key finds nothing, rows that lack the
\* key included.
CexC11_ColumnsInInsertionOrder ==
  (phase = "done" /\ outcome.kind = "ok") =>
    LET r == outcome.value
        keys == InsertedKeys(file.rows[1])
    IN  /\ r.totalColumns = Len(keys)
        /\ Len(r.columns) = Len(keys)
        /\ \A c \in 1..Len(keys) :
             /\ r.columns[c].name = keys[c]
             /\ r.columns[c].nullCount =
                  Cardinality(RowsLacking(file.rows, keys[c]))

Received == requests[Len(requests)].analysis

\* The route answered with a list of recommendations
Answered == response.status = 200

Returned == response.body.insights

IsPerRecord(insight) == "affectedColumns" \in DOMAIN insight

IsDatasetLevel(insight) == ~IsPerRecord(insight)

Range(seq) == { seq[i] : i \in 1..Len(seq) }

ColumnNames(analysis) ==
  { analysis.columns[c].name : c \in 1..Len(analysis.columns) }

\* The names of the analysed columns that pass for an id column
IdColumnNames(analysis) ==
  { n \in ColumnNames(analysis) :
      ToLowerCase(n) = "id" \/ EndsWith(ToLowerCase(n), "_id") }

\* The id column: the first analysed column that passes for one
IdColumnName(analysis) ==
  analysis.columns[CHOOSE c \in 1..Len(analysis.columns) :
    /\ analysis.columns[c].name \in IdColumnNames(analysis)
    /\ \A d \in 1..(c - 1) :
         analysis.columns[d].name \notin IdColumnNames(analysis)].name

RecordMarkers == {Null, Undefined, Str(""), Str("-")}

\* The analysed columns, the id column aside, that a record holds nothing
\* under: the key is absent or its value is a marker.
MissingFields(row, names, idName) ==
  { n \in names :
      /\ n # idName
      /\ ~HasKey(row, n) \/ Lookup(row, n) \in RecordMarkers }

\* The preview records with a missing field, in preview order
RecordsWithMissingFields(analysis) ==
  LET names == ColumnNames(analysis)
      idName == IdColumnName(analysis)
      Lacks(row) == MissingFields(row, names, idName) # {}
  IN  SelectSeq(analysis.dataPreview, Lacks)

\* C13: with an id column, the recommendations for single records are those
\* of the preview records with a missing field, and the affectedColumns of
\* each are exactly the analysed columns other than the id column under which
\* its record holds null, undefined, no key at all, "" or "-".
CexC13_AffectedColumns ==
  (Answered /\ IdColumnNames(Received) # {}) =>
    LET perRecord == SelectSeq(Returned, IsPerRecord)
        records == RecordsWithMissingFields(Received)
        names == ColumnNames(Received)
        idName == IdColumnName(Received)
    IN  /\ Len(perRecord) = Len(records)
        /\ \A j \in 1..Len(perRecord) :
             Range(perRecord[j].affectedColumns)
               = MissingFields(records[j], names, idName)

\* C14: one recommendation per preview record with a missing field and none
\* for the others, High when the record misses two fields or more and Medium
\* when it misses one; no recommendation for a single record when no column
\* is named id or ends with _id.
CexC14_OnePerRecord ==
  Answered =>
    LET perRecord == SelectSeq(Returned, IsPerRecord)
    IN  IF IdColumnNames(Received) = {} THEN perRecord = <<>>
        ELSE
          LET records == RecordsWithMissingFields(Received)
              names == ColumnNames(Received)
              idName == IdColumnName(Received)
          IN  /\ Len(perRecord) = Len(records)
              /\ \A j \in 1..Len(perRecord) :
                   perRecord[j].priority =
                     IF Cardinality(MissingFields(records[j], names, idName)) >= 2
                     THEN "High" ELSE "Medium"

\* The replies of the external service that are a failure: the call throws,
\* the message has no content, its text holds no bracketed list, or the
\* bracketed text is no JSON.
FailedReplies ==
  { Throw(ServiceError),
    Return([content |-> Null]),
    Return([content |-> Str("I cannot produce recommendations.")]),
    Return([content |-> Str("[see the summary above]")]) }

\* The list a reply of the service stands for, for the replies that hold one
ServiceList ==
  IF service = Return([content |-> Str("[]")]) THEN <<>>
  ELSE IF service = Return([content |-> Str("[" \o UnknownPriorityItemText \o "]")])
  THEN <<UnknownPriorityItem>>
  ELSE <<LowItem, HighItem>>

\* The keys of a preview record, the id column aside, that hold a marker
MarkedKeys(row, idName) ==
  { k \in Range(InsertedKeys(row)) :
      k # idName /\ Lookup(row, k) \in RecordMarkers }

\* The preview records the extraction reports, in preview order
ReportedRecords(analysis) ==
  LET idName == IdColumnName(analysis)
      Marked(row) == MarkedKeys(row, idName) # {}
  IN  IF IdColumnNames(analysis) = {} THEN <<>>
      ELSE SelectSeq(analysis.dataPreview, Marked)

\* C15: whatever the service call came to, the returned list is the
\* recommendations for single records, in the order of their records in the
\* preview, followed by the dataset-level ones in the order they were
\* produced; nothing is moved by priority.
ThmC15_PerRecordFirst ==
  Answered =>
    LET records == ReportedRecords(Received)
        idName == IdColumnName(Received)
        produced == IF service \in FailedReplies
                    THEN defaultInsights(Received) ELSE ServiceList
    IN  /\ Len(Returned) = Len(records) + Len(produced)
        /\ \A j \in 1..Len(records) :
             /\ IsPerRecord(Returned[j])
             /\ Range(Returned[j].affectedColumns)
                  = MarkedKeys(records[j], idName)
        /\ \A j \in 1..Len(produced) :
             Returned[Len(records) + j] = produced[j]

WitC15_MediumLowHigh ==
  /\ Answered
  /\ Len(Returned) = 3
  /\ IsPerRecord(Returned[1])
  /\ Returned[1].priority = "Medium"
  /\ Returned[2] = LowItem
  /\ Returned[3] = HighItem

\* C16: when the service call fails (it throws, the message has no content,
\* the text is no parseable JSON list) generateInsights does not throw: the
\* route answers with the recommendations for single records followed by
\* exactly defaultInsights of the analysis.
ThmC16_FallbackOnFailure ==
  (phase \in {"responded", "done"} /\ service \in FailedReplies) =>
    /\ response.status = 200
    /\ SelectSeq(Returned, IsDatasetLevel) = defaultInsights(Received)
    /\ Returned = SelectSeq(Returned, IsPerRecord) \o defaultInsights(Received)
    /\ Len(SelectSeq(Returned, IsPerRecord)) = Len(ReportedRecords(Received))

WitC16_UnparseableList ==
  /\ phase = "done"
  /\ service = Return([content |-> Str("[see the summary above]")])
  /\ response.status = 200
  /\ Len(page.insights) >= 2
  /\ IsPerRecord(page.insights[1])
  /\ page.insights[Len(page.insights)] \in Range(defaultInsights(Received))

\* C17: defaultInsights emits, in this order and each independently of the
\* others, a High item iff completeness < 95, a Medium item iff consistency
\* < 85, a High item iff accuracy < 80 and a Medium item iff validity < 90;
\* a score equal to its threshold emits nothing and the list has 0..4 items.
ThmC17_Thresholds ==
  (phase = "done" /\ scores.completeness # JsonNull) =>
    LET insights == outcome.value
    IN  /\ insights =
             (IF scores.completeness < 95
              THEN <<CompletenessInsight(scores)>> ELSE <<>>)
             \o (IF scores.consistency < 85 THEN <<ConsistencyInsight>> ELSE <<>>)
             \o (IF scores.accuracy < 80 THEN <<AccuracyInsight>> ELSE <<>>)
             \o (IF scores.validity < 90 THEN <<ValidityInsight>> ELSE <<>>)
        /\ Len(insights) \in 0..4
        /\ CompletenessInsight(scores).priority = "High"
        /\ ConsistencyInsight.priority = "Medium"
        /\ AccuracyInsight.priority = "High"
        /\ ValidityInsight.priority = "Medium"

WitC17_OnlyConsistencyBelow ==
  /\ phase = "done"
  /\ scores = [ completeness |-> 95, consistency |-> 84,
                accuracy |-> 80, validity |-> 90 ]
  /\ outcome.value = <<ConsistencyInsight>>

\* C18: every recommendation generateInsights returns, the ones parsed from
\* the service's text included, has a priority among High, Medium and Low,
\* an issue and a suggestion.
CexC18_WellFormedInsights ==
  Answered =>
    \A i \in 1..Len(Returned) :
      /\ {"priority", "issue", "suggestion"} \subseteq DOMAIN Returned[i]
      /\ Returned[i].priority \in {"High", "Medium", "Low"}

\* C19: after an analysis that succeeded, a failure of the recommendation
\* service (no key, a call that throws, a reply without a usable list) never
\* ends in the error panel: the run ends with the analysis shown, no error
\* and the rule-based list.
CexC19_ServiceFailureHidden ==
  ( /\ phase = "done"
    /\ outcome.kind = "ok"
    /\ response # NoResponse
    /\ apiKey = Undefined \/ service \in FailedReplies ) =>
    /\ page.error = Null
    /\ page.analysis = outcome.value
    /\ SelectSeq(page.insights, IsDatasetLevel) = defaultInsights(Received)

\* C20: when decoding or analysis fails, the run ends with one error message
\* and nothing else: no analysis, no request to /api/analyze, no insights,
\* progress 0, loading false.
ThmC20_AnalysisFailureAborts ==
  outcome.kind = "throw" =>
    /\ requests = <<>>
    /\ response = NoResponse
    /\ page.analysis = Null
    /\ page.insights = <<>>
    /\ phase = "done" =>
         /\ page.error = Str(outcome.message)
         /\ page.progress = 0
         /\ page.loading = FALSE

WitC20_UnsupportedExtension ==
  /\ phase = "done"
  /\ file # NoFile
  /\ file.name = "data.txt"
  /\ outcome = Throw("Unsupported file format")
  /\ page = [InitialPage EXCEPT !.error = Str("Unsupported file format"),
                                !.loading = FALSE]


\* C24: a column typed integer or float never has a present value failing
\* the numeric-conversion check: no "non-numeric values found" issue is
\* emitted and accuracy is 100.
CexC24_NoNonNumericIssue ==
  phase = "done" =>
    /\ \A i \in 1..Len(stats) :
         \A j \in 1..Len(stats[i].issues) :
           ~IsNonNumericIssue(stats[i].issues[j])
    /\ scores.accuracy = 100

\* The rows holding the first occurrence of a present value.
FirstOccurrences ==
  { i \in PresentRows : \A j \in 1..(i - 1) : values[j] # values[i] }

\* C25: sampleValues is the first min(5, uniqueCount) distinct present values
\* in order of first occurrence, with no missing and no repeated value.
ThmC25_SampleValues ==
  phase = "done" =>
    LET sample == column.sampleValues
    IN  /\ Len(sample) = IF column.uniqueCount < 5 THEN column.uniqueCount ELSE 5
        /\ \A k \in 1..Len(sample) :
             \E i \in FirstOccurrences :
               /\ Cardinality({ j \in FirstOccurrences : j < i }) = k - 1
               /\ sample[k] = values[i]
        /\ \A k \in 1..Len(sample) : sample[k] \notin MissingMarkers
        /\ \A k, l \in 1..Len(sample) : k # l => sample[k] # sample[l]

WitC25_MoreThanFiveDistinct ==
  /\ phase = "done"
  /\ column.uniqueCount > 5
  /\ Len(column.sampleValues) = 5
  /\ values[2] = Null
  /\ values[4] = values[1]
  /\ column.sampleValues
       = <<Num("1"), Str("abc"), Str("Yes"), Num("0"), Num("999")>>

\* sum of the lengths of the columns' issue lists
RECURSIVE SumIssueLengths(_)
SumIssueLengths(columns) ==
  IF columns = <<>> THEN 0
  ELSE Len(columns[1].issues) + SumIssueLengths(Tail(columns))

\* C26: "<n> duplicate values" is appended exactly when
\* n = totalRows - nullCount - uniqueCount > 0, n is never negative, the
\* issues come in the order missing, non-numeric, duplicates, and the
\* summary's count is the sum of the columns' issue-list lengths.
ThmC26_DuplicatesAndOrder ==
  (phase = "done" /\ outcome.kind = "ok") =>
    LET analysis == outcome.value
    IN  /\ \A c \in 1..Len(analysis.columns) :
             LET col == analysis.columns[c]
                 n == col.totalRows - col.nullCount - col.uniqueCount
                 missing == { j \in 1..Len(col.issues) :
                                Includes(col.issues[j], " missing values (") }
                 mismatch == { j \in 1..Len(col.issues) :
                                 Includes(col.issues[j], " non-numeric values found") }
                 duplicates == { j \in 1..Len(col.issues) :
                                   Includes(col.issues[j], " duplicate values") }
             IN  /\ n >= 0
                 /\ n > 0 <=> duplicates # {}
                 /\ \A j \in duplicates :
                      col.issues[j] = ToString(n) \o " duplicate values"
                 /\ Cardinality(missing) <= 1
                 /\ Cardinality(mismatch) <= 1
                 /\ Cardinality(duplicates) <= 1
                 /\ missing \cup mismatch \cup duplicates = 1..Len(col.issues)
                 /\ \A i \in missing : \A j \in mismatch \cup duplicates : i < j
                 /\ \A i \in mismatch : \A j \in duplicates : i < j
        /\ analysis.summary
             = "Dataset with " \o ToString(analysis.totalRows) \o " rows and "
                 \o ToString(analysis.totalColumns) \o " columns. Found "
                 \o ToString(SumIssueLengths(analysis.columns))
                 \o " data quality issues."

WitC26_AllThreeIssues ==
  /\ phase = "done"
  /\ outcome.kind = "ok"
  /\ Len(outcome.value.columns) = 1
  /\ outcome.value.columns[1].issues
       = << "1 missing values (33%)", "2 non-numeric values found",
            "1 duplicate values" >>
  /\ outcome.value.summary
       = "Dataset with 3 rows and 1 columns. Found 3 data quality issues."

\* C27: type inference is idempotent: inferred from the present values
\* alone, the type is the one inferred from the full column.
ThmC27_InferenceIdempotent ==
  phase = "done" =>
    /\ inferDataType(SelectSeq(values, IsPresent)) = column.type
    /\ inferDataType(SelectSeq(values, IsPresent)) = inferDataType(values)

WitC27_MissingAmongNumbers ==
  /\ phase = "done"
  /\ \E i \in 1..Len(values) : values[i] \in MissingMarkers
  /\ Len(SelectSeq(values, IsPresent)) >= 2
  /\ column.type = "float"
  /\ inferDataType(SelectSeq(values, IsPresent)) = "float"


\* C21: an analysis written as JSON and read back, in the request to
\* /api/analyze and in sessionStorage for the dashboard, is field for field
\* the analysis that was written, for every non-empty input.
CexC21_JsonRoundTrip ==
  /\ (phase \in {"fetching", "asking", "responded", "done"} /\ requests # <<>>)
       => requests[Len(requests)].analysis = outcome.value
  /\ dashboard.step # "closed" => sessionStorage.analysisData = page.analysis

\* C22: no presentation action changes an analysis: on either page its
\* columns are those analyze produced, in their order, and the dashboard's
\* column table and every report list the columns in that order.
CexC22_ColumnsNeverReordered ==
  (phase = "done" /\ outcome.kind = "ok") =>
    LET produced == outcome.value.columns
    IN  /\ page.analysis # Null => page.analysis.columns = produced
        /\ dashboard.step \in {"rendered", "charted"} =>
             /\ dashboard.analysis.columns = produced
             /\ dashboard.table = NamesOf(produced)
        /\ report # NoReport =>
             NamesOf(report.response.columns) = NamesOf(produced)

RunSettled ==
  \/ /\ page.error # Null
     /\ page.progress = 0
  \/ /\ page.error = Null
     /\ page.progress = 100
     /\ page.analysis = outcome.value
     /\ response.status = 200
     /\ page.insights = response.body.insights

RunsOverlappedAndEnded ==
  /\ runs # <<>>
  /\ \A i \in 1..Len(runs) : runs[i].step = "done"
  /\ \E i \in 1..Len(runs) : runs[i].overlaps

\* C29: when a run of analyzeFile is started while an earlier one awaits
\* its response, the page never ends up with the analysis of one run and
\* the insights, the error or the progress written by another run.
CexC29_RunsShareNoState ==
  (RunsOverlappedAndEnded /\ written.analysis # 0) =>
    /\ written.insights \in {0, written.analysis}
    /\ written.error \in {0, written.analysis}
    /\ written.progress = written.analysis


\* C23: a file is handed to the analysis page only if its lower-cased name
\* ends in .csv or .json, its size is at most 50MB and, for .json, its text
\* parses as JSON; when a file is rejected an error message is set,
\* uploading is false afterwards and no navigation happens.
CexC23_UploadValidation ==
  /\ home.handed # NoUpload =>
       LET f == home.handed.file
       IN  /\ \/ EndsWith(ToLowerCase(f.name), ".csv")
              \/ EndsWith(ToLowerCase(f.name), ".json")
           /\ f.size <= 50 * 1024 * 1024
           /\ EndsWith(ToLowerCase(f.name), ".json") => f.json
  /\ home.last.verdict = "rejected" =>
       /\ home.error # Null
       /\ ~home.uploading
       /\ home.route = "/"

====
